---- MODULE Spec2Model ----
(***************************************************************************)
(* Verification model of dimin7226/sspo-labs: the UDP reliability layer    *)
(* (lab04/sliding_window.py, lab04/udp_handler.py), the TCP client         *)
(* (lab04/client.py), the thread-per-connection server (lab02/server.py)   *)
(* and the select()-based server (lab03/server.py).                        *)
(*                                                                         *)
(* The module holds one specification per component:                      *)
(*   SpecRW     ReceiveWindow                                              *)
(*   SpecSW     SlidingWindow                                              *)
(*   SpecCodec  create_packet / parse_packet                               *)
(*   SpecSession  RequestSession._run with parse_packet                    *)
(*   SpecRequests  two RequestSession threads of one request id and the  *)
(*              registry handler.requests                                  *)
(*   SpecRequestId  UDPClientHandler._get_request_id                       *)
(*   SpecExchange  the datagrams the UDP client's three receive loops     *)
(*              take, with their request ids                               *)
(*   SpecAck    UDPClientHandler._receive_file_fast                        *)
(*   SpecUpload UDPClientHandler._send_file_fast                           *)
(*   SpecDownload  the UDP download: UDPServerHandler of lab03 and the    *)
(*              UDP client of lab04                                        *)
(*   SpecStore  the upload store: finalize_file and the UDP upload of      *)
(*              lab03                                                      *)
(*   SpecTCP    the TCP clients of lab04 with the server of lab02 or of    *)
(*              lab03                                                      *)
(* Variables of the components a specification does not exercise stay at   *)
(* their idle values.                                                      *)
(***************************************************************************)
EXTENDS Integers, Sequences, FiniteSets, TLC

None == "None"

(***************************************************************************)
(* Bounds of the model                                                     *)
(***************************************************************************)
\* sequence numbers handed to the windows are 0..MaxSeq
MaxSeq == 3
\* window_size (a constructor argument) ranges over 1..MaxWin
MaxWin == 3
\* number of ReceiveWindow.add_packet calls explored
MaxCalls == 5

\* sequence numbers passed to SlidingWindow.add_packet are 0..SWMaxSeq
SWMaxSeq == 1
\* window_size of a SlidingWindow ranges over 1..SWMaxWin
SWMaxWin == 2
\* number of SlidingWindow.add_packet calls explored
SWMaxAdds == 3

\* udp_handler.py:32
MAX_RESENDS == 5
\* udp_handler.py:31, ACK_TIMEOUT, counted in ticks of the model's clock
ACK_TIMEOUT == 1

\* payloads of every length 0..CDMaxShort are encoded, besides the longest
\* payload the length field can declare and the one a byte longer
CDMaxShort == 2

\* udp_handler.py:17, PACKET_HEADER_FORMAT = '!HHIIBH': the field widths in bytes
W_MAGIC == 2
W_REQUEST_ID == 2
W_PACKET_ID == 4
W_TOTAL == 4
W_FLAGS == 1
W_DATA_SIZE == 2
\* udp_handler.py:18, struct.calcsize('!HHIIBH')
PACKET_HEADER_SIZE == 15
\* udp_handler.py:19, 0xDEAD
MAGIC == 57005
\* udp_handler.py:21
REQUEST_ID_MAX == 65535
\* the largest value of the 2-byte unsigned data_size field
DATA_SIZE_MAX == 65535
\* udp_handler.py:24-28
FLAG_DATA == 1
FLAG_ACK == 2
FLAG_START == 4
FLAG_END == 8
FLAG_RESEND == 16

\* TCP connections (client sockets) of the server model
NSessions == 2
\* number of TCPClientHandler method calls made by all clients together
MaxCmds == 3
\* the stored file and the clients' local files hold at most MaxFile bytes
\* (a local file may be one byte longer than the stored one)
MaxFile == 2

\* a UDP download has 1..UAMaxPkt DATA packets of one payload byte each
UAMaxPkt == 3
\* number of datagrams _receive_file_fast is handed
UAMaxRecv == 5
\* client.py:548, `current_time - last_ack > 0.005`, in milliseconds
ACK_INTERVAL_MS == 5
\* client.py:510, settimeout(0.001), in milliseconds
RECV_TIMEOUT_MS == 1
\* client.py:548, `len(ack_batch) > 50`
ACK_BATCH_FORCE == 50
\* client.py:550 and 553, ack_batch[:20] and ack_batch[20:]
ACK_SEND_MAX == 20
\* client.py:536, packets[packet_id - 1000]
PACKET_ID_BASE == 1000

\* number of operations on the upload store
FSMaxOps == 5
\* a partial file and a UDP upload hold at most FSMaxLen bytes
FSMaxLen == 2

\* _get_request_id is called until its counter has wrapped GIMaxWraps times
GIMaxWraps == 1

\* number of datagrams a receive loop of the UDP client takes
IXMaxRecv == 3

\* number of items put on the queues of the request sessions
RQMaxPut == 3

\* the file of a UDP download has 1..UDMaxPkt chunks
UDMaxPkt == 2
\* the network loses at most UDMaxLost datagrams sent by the server
UDMaxLost == 1

\* number of packets RequestSession._run takes from its queue
RSMaxQueue == 3
\* the datagrams put in the queue carry 0..RSMaxData payload bytes
RSMaxData == 2

\* an uploaded file has 1..USMaxFile bytes
USMaxFile == 3
\* bytes of file data per packet (data_size, client.py:419)
USDataSize == 1
\* self.window_size (client.py:223) is 1..USMaxWin
USMaxWin == 2
\* number of datagrams _send_file_fast receives
USMaxRecv == 3
\* client.py:224, self.packet_timeout, in ticks
PACKET_TIMEOUT == 1
\* client.py:472, `info["resends"] < 3`
UPLOAD_RESENDS == 3
\* client.py:423-424, next_seq = 1000 and base_seq = 1000
UPLOAD_FIRST_SEQ == 1000

\* app_config.py:11 sets BUFFER_SIZE = 8192; the model counts a command line
\* as two stream elements (its text and its newline) and scales the buffer
\* down so that a recv() holds a few lines or file bytes
BUFFER_SIZE == 4

Sessions == 1..NSessions
FileNames == {"f"}
\* lab02/server.py:108-110: the name an upload is stored under when a file
\* of its name exists already, f"{base}_{int(time.time())}{ext}"
Renamed(name) == "f_ts"
StoredNames == FileNames \cup {Renamed(f) : f \in FileNames}
ClientIds == {"alice"}

SeqNums == 0..MaxSeq
SWSeqNums == 0..SWMaxSeq
\* distinct payload contents a sender may put under one sequence number
\* (a retransmission need not repeat the bytes of the first transmission)
Versions == {"a", "b"}

VARIABLES
    \* ---- ReceiveWindow (lab04/sliding_window.py:105-158) ----
    rw_window_size,     \* self.window_size
    expected_seq,       \* self.expected_seq
    buffer,             \* self.buffer: seq_num -> data (a partial function)
    received_packets,   \* self.received_packets
    rw_call,            \* arguments of the last add_packet call
    rw_ret,             \* value returned by the last add_packet call
    rw_delivered,       \* payloads handed to the caller so far, in order
    rw_passed,          \* how many add_packet calls each seq_num has had
    rw_sent,            \* the payloads passed to add_packet so far
    rw_dropped,         \* seq_nums that fell through to the last return
    \* ---- SlidingWindow (lab04/sliding_window.py:10-102) ----
    sw_window_size,     \* self.window_size
    base,               \* self.base
    next_seq,           \* self.next_seq
    packets,            \* self.packets, a dict: its entries in insertion order
    closed,             \* self.closed
    sw_resent,          \* seq_num -> times returned for resending since added
    sw_callbacks,       \* seq_num -> arguments its callbacks were invoked with
    sw_adds,            \* number of add_packet calls made
    \* ---- packet codec (lab04/udp_handler.py:35-81) ----
    cd_args,            \* arguments of the last create_packet call
    cd_wire,            \* the datagram: what create_packet returned, as it
                        \* reaches parse_packet
    cd_parsed,          \* value returned by the last parse_packet call
    cd_pc,              \* "idle", "created", "received" or "parsed"
    \* ---- the server program ----
    server,             \* which server runs: "lab02" or "lab03"
    sock_attrs,         \* whether the objects accept() returns take new
                        \* attributes.  socket.socket declares __slots__, so
                        \* under CPython they do not (FALSE) and sock.buffer =
                        \* b"" raises AttributeError; TRUE is the socket class
                        \* lab03/server.py is written for
    th,                 \* lab02: the handle_client thread of each connection
    \* ---- lab03 Server (select loop) and its TCP sockets ----
    listen_q,           \* connections waiting in the listen queue
    tcp_clients,        \* keys of tcp_clients, the client sockets in inputs
    sock_closed,        \* client sockets the server has closed
    sock_buffer,        \* sock.buffer of each client socket
    upload_state,       \* sock.upload_state
    download_state,     \* sock.download_state
    uploads,            \* the files of UPLOADS_DIR
    srv_pc,             \* where the server thread is: in select() or inside
                        \* recv_until of _handle_download_nonblocking
    srv_cmds,           \* the commands process_command was called with
    srv_file_sent,      \* the file data sent for the last DOWNLOAD of a socket
    srv_offset_str,     \* offset_str: the line last read as a resume offset
    \* ---- the TCP connections ----
    c2s,                \* bytes sent by the client, not yet read by the server
    s2c,                \* bytes sent by the server, not yet read by the client
    c_eof,              \* the client has closed its socket
    \* ---- lab04 TCPClientHandler, one per connection ----
    cl_pc,              \* the statement the client is at
    cl_connected,       \* self.connected
    cl_file,            \* the file of that name in the clients' directory
    cl_dl,              \* locals of download_file: filesize, offset, received
    cl_sent_offset,     \* the offset lines download_file has sent
    cl_cmds,            \* number of method calls made so far
    \* ---- UDPClientHandler._receive_file_fast (lab04/client.py:498-600) ----
    ua_filesize,        \* filesize
    ua_packets,         \* indexes i with packets[i] is not None
    ua_received,        \* received
    ack_batch,          \* ack_batch
    ua_since_ack,       \* time.time() - last_ack in ms, counted up to
                        \* ACK_INTERVAL_MS + 1
    ua_pc,              \* "recv" (inside the loops) or "done"
    ua_recvd,           \* packet_id -> DATA packets of the request received
    ua_acks,            \* packet_id -> ACK packets sent for it
    ua_n,               \* number of datagrams received
    \* ---- the upload store (lab02/file_handler.py, lab03 UDPServerHandler) ----
    fs_uploads,         \* name -> file of UPLOADS_DIR
    fs_partial,         \* <<client_id, filename>> -> file of PARTIAL_DIR
    fs_session,         \* client_info["file_session"] of the UDP client
    fs_ops,             \* number of operations made so far
    \* ---- RequestSession._run (lab04/udp_handler.py:119-134) ----
    rs_packet,          \* packet, the last one taken from the queue
    rs_parsed,          \* parsed
    rs_running,         \* _run is in its loop
    rs_handled,         \* number of calls of handler.handle_packet
    rs_registered,      \* request_id in handler.requests
    rs_n,               \* number of packets taken from the queue
    \* ---- UDPClientHandler._send_file_fast (lab04/client.py:415-497) ----
    us_window_size,     \* self.window_size
    us_filesize,        \* filesize
    us_window,          \* window: seq -> [time, resends], time being the
                        \* ticks since info["time"], counted up to
                        \* PACKET_TIMEOUT + 1
    us_next_seq,        \* next_seq
    us_base_seq,        \* base_seq
    us_sent_bytes,      \* sent_bytes
    us_pc,              \* "fill", "recv" or "done"
    us_xmit,            \* seq -> number of sendto calls with its packet
    us_n,               \* number of datagrams received
    \* ---- UDP download: lab03 UDPServerHandler, lab04 UDPClientHandler ----
    ud_filesize,        \* os.path.getsize(filepath), in chunks of one byte
    ud_clients,         \* client_addr in self.clients
    ud_srv,             \* where the server is: [at, packet_seq, sent]
    ud_in,              \* datagrams on their way to the server
    ud_out,             \* datagrams on their way to the client
    ud_built,           \* every packet built so far, with the packet_id of
                        \* the packet it answers (-1: it answers none)
    ud_lost,            \* number of datagrams of the server lost so far
    ud_cl,              \* the client: [pc, attempt, packets, received,
                        \* ack_batch]
    \* ---- RequestSession objects of one request id (udp_handler.py:107-134)
    rq_requests,        \* handler.requests[request_id]: the session
                        \* registered, 0 when the id is not in the dict
    rq_queue,           \* session -> self.queue
    rq_pc,              \* session -> "none" (not created), "get" (in the
                        \* loop), "cleanup" (out of the loop) or "dead"
    rq_handled,         \* session -> the packets passed to handle_packet
    rq_put,             \* session -> everything put on its queue so far
    \* ---- UDPClientHandler._get_request_id (lab04/client.py:225-234) ----
    next_request_id,    \* self.next_request_id
    gi_rid,             \* the id the last call returned, 0 before any call
    gi_wraps,           \* number of calls that returned REQUEST_ID_MAX
    \* ---- the receive loops of _wait_for_response, _send_file_fast and
    \* ---- _receive_file_fast (lab04/client.py) ----
    ix_fn,              \* the function running: "wait", "send" or "recv"
    ix_request_id,      \* request_id
    ix_packets,         \* keys of packets (wait), indexes stored (recv)
    ix_received,        \* received (recv)
    ix_ack_batch,       \* ack_batch (recv)
    ix_acks,            \* the ACK packets sent: <<request id, packet id>>
    ix_window,          \* keys of window (send)
    ix_base_seq,        \* base_seq (send)
    ix_returned,        \* _wait_for_response has returned
    ix_last,            \* the datagram taken last
    ix_n                \* number of datagrams taken

rwVars == <<rw_window_size, expected_seq, buffer, received_packets,
            rw_call, rw_ret, rw_delivered, rw_passed, rw_sent,
            rw_dropped>>

swVars == <<sw_window_size, base, next_seq, packets, closed,
            sw_resent, sw_callbacks, sw_adds>>

cdVars == <<cd_args, cd_wire, cd_parsed, cd_pc>>

srvVars == <<listen_q, tcp_clients, sock_closed, sock_buffer, upload_state,
             download_state, uploads, srv_pc, srv_cmds, srv_file_sent,
             srv_offset_str>>
netVars == <<c2s, s2c, c_eof>>
clVars == <<cl_pc, cl_connected, cl_file, cl_dl, cl_sent_offset, cl_cmds>>
cfgVars == <<server, sock_attrs>>
tcpVars == <<cfgVars, th, srvVars, netVars, clVars>>

uaVars == <<ua_filesize, ua_packets, ua_received, ack_batch, ua_since_ack,
            ua_pc, ua_recvd, ua_acks, ua_n>>

fsVars == <<fs_uploads, fs_partial, fs_session, fs_ops>>

rsVars == <<rs_packet, rs_parsed, rs_running, rs_handled, rs_registered, rs_n>>

usVars == <<us_window_size, us_filesize, us_window, us_next_seq, us_base_seq,
            us_sent_bytes, us_pc, us_xmit, us_n>>

udVars == <<ud_filesize, ud_clients, ud_srv, ud_in, ud_out, ud_built, ud_lost,
            ud_cl>>

rqVars == <<rq_requests, rq_queue, rq_pc, rq_handled, rq_put>>

giVars == <<next_request_id, gi_rid, gi_wraps>>

ixVars == <<ix_fn, ix_request_id, ix_packets, ix_received, ix_ack_batch,
            ix_acks, ix_window, ix_base_seq, ix_returned, ix_last, ix_n>>

vars == <<rwVars, swVars, cdVars, tcpVars, uaVars, fsVars, rsVars, usVars,
          udVars, rqVars, giVars, ixVars>>

\* the variables of the other components, which a component's actions leave alone
notRW == <<swVars, cdVars, tcpVars, uaVars, fsVars, rsVars, usVars,
  udVars, rqVars, giVars, ixVars>>
notSW == <<rwVars, cdVars, tcpVars, uaVars, fsVars, rsVars, usVars,
  udVars, rqVars, giVars, ixVars>>
notCD == <<rwVars, swVars, tcpVars, uaVars, fsVars, rsVars, usVars,
  udVars, rqVars, giVars, ixVars>>
notTCP == <<rwVars, swVars, cdVars, uaVars, fsVars, rsVars, usVars,
  udVars, rqVars, giVars, ixVars>>
notUA == <<rwVars, swVars, cdVars, tcpVars, fsVars, rsVars, usVars,
  udVars, rqVars, giVars, ixVars>>
notFS == <<rwVars, swVars, cdVars, tcpVars, uaVars, rsVars, usVars,
  udVars, rqVars, giVars, ixVars>>
notRS == <<rwVars, swVars, cdVars, tcpVars, uaVars, fsVars, usVars,
  udVars, rqVars, giVars, ixVars>>
notUS == <<rwVars, swVars, cdVars, tcpVars, uaVars, fsVars, rsVars,
  udVars, rqVars, giVars, ixVars>>
notUD == <<rwVars, swVars, cdVars, tcpVars, uaVars, fsVars, rsVars, usVars,
  rqVars, giVars, ixVars>>
notRQ == <<rwVars, swVars, cdVars, tcpVars, uaVars, fsVars, rsVars, usVars,
  udVars, giVars, ixVars>>
notGI == <<rwVars, swVars, cdVars, tcpVars, uaVars, fsVars, rsVars, usVars,
  udVars, rqVars, ixVars>>
notIX == <<rwVars, swVars, cdVars, tcpVars, uaVars, fsVars, rsVars, usVars,
  udVars, rqVars, giVars>>

(***************************************************************************)
(* ReceiveWindow                                                           *)
(***************************************************************************)
\* the payload a sender puts into the packet numbered seq
Payload(seq, ver) == [seq |-> seq, ver |-> ver]

\* the while loop of add_packet (lines 131-134): pops the payloads that have
\* become contiguous; st = [expected_seq, buffer, received_packets, result_data]
RW_drain_once(st) ==
    IF st.expected_seq \in DOMAIN st.buffer
    THEN [expected_seq     |-> st.expected_seq + 1,
          buffer           |-> [k \in DOMAIN st.buffer \ {st.expected_seq}
                                   |-> st.buffer[k]],
          received_packets |-> st.received_packets \cup {st.expected_seq},
          result_data      |-> Append(st.result_data,
                                      st.buffer[st.expected_seq])]
    ELSE st
RECURSIVE RW_drain(_)
RW_drain(st) ==
    IF st.expected_seq \in DOMAIN st.buffer
    THEN RW_drain([expected_seq     |-> st.expected_seq + 1,
                   buffer           |-> [k \in DOMAIN st.buffer \ {st.expected_seq}
                                            |-> st.buffer[k]],
                   received_packets |-> st.received_packets \cup {st.expected_seq},
                   result_data      |-> Append(st.result_data,
                                               st.buffer[st.expected_seq])])
    ELSE st

\* line 124: the packet is the one the window waits for
RW_is_expected_ge(seq_num, exp) == seq_num >= exp
RW_is_expected(seq_num, exp) == seq_num = exp

\* line 139: the packet is ahead of expected_seq and inside the window
RW_in_window_le(seq_num, exp, wsize) ==
    seq_num > exp /\ seq_num <= exp + wsize
RW_in_window(seq_num, exp, wsize) ==
    seq_num > exp /\ seq_num < exp + wsize

\* lines 140-141: a number already buffered keeps its first payload
RW_store_overwrite(buf, seq_num, data) ==
    [k \in DOMAIN buf \cup {seq_num} |-> IF k = seq_num THEN data ELSE buf[k]]
RW_store(buf, seq_num, data) ==
    IF seq_num \notin DOMAIN buf
    THEN [k \in DOMAIN buf \cup {seq_num} |->
             IF k = seq_num THEN data ELSE buf[k]]
    ELSE buf

\* the pair (False, None) of lines 121, 142 and 144
RetNone == [ready |-> FALSE, kind |-> "None", data |-> <<>>]

\* ReceiveWindow.add_packet(seq_num, total_packets, data); total_packets is
\* not read by the code.  The result holds the new fields and the returned
\* pair: ret.kind tells whether the second component is None, the payload
\* `data` itself ("one") or the list result_data ("list"); ret.data lists the
\* payloads it holds.  far is TRUE when the call fell through to line 144.
RW_add_packet(exp, buf, recvd, wsize, seq_num, data) ==
    IF seq_num \in recvd
    THEN [expected_seq |-> exp, buffer |-> buf, received_packets |-> recvd,
          ret |-> RetNone, far |-> FALSE]
    ELSE IF RW_is_expected(seq_num, exp)
    THEN LET d == RW_drain([expected_seq     |-> exp + 1,
                            buffer           |-> buf,
                            received_packets |-> recvd \cup {seq_num},
                            result_data      |-> <<data>>])
         IN [expected_seq |-> d.expected_seq, buffer |-> d.buffer,
             received_packets |-> d.received_packets,
             ret |-> [ready |-> TRUE,
                      kind  |-> IF Len(d.result_data) > 1 THEN "list" ELSE "one",
                      data  |-> IF Len(d.result_data) > 1 THEN d.result_data
                                ELSE <<data>>],
             far |-> FALSE]
    ELSE IF RW_in_window(seq_num, exp, wsize)
    THEN [expected_seq |-> exp,
          buffer |-> RW_store(buf, seq_num, data),
          received_packets |-> recvd,
          ret |-> RetNone, far |-> FALSE]
    ELSE [expected_seq |-> exp, buffer |-> buf, received_packets |-> recvd,
          ret |-> RetNone, far |-> TRUE]

(***************************************************************************)
(* SlidingWindow                                                           *)
(*                                                                         *)
(* self.packets is a dict; it is kept as the sequence of its entries in    *)
(* insertion order, each entry [seq_num, packet, time, resends, callback]. *)
(* info['time'] is kept as the time elapsed since the stamp, i.e. the      *)
(* value current_time - info['time'] of line 69, which stops growing once  *)
(* it exceeds the timeout.  callback is TRUE when a callback was given.    *)
(***************************************************************************)
SW_keys(pk) == {pk[i].seq_num : i \in 1..Len(pk)}
SW_index(pk, s) == CHOOSE i \in 1..Len(pk) : pk[i].seq_num = s
SW_get(pk, s) == pk[SW_index(pk, s)]
\* del self.packets[seq_num]
SW_del(pk, s) == SelectSeq(pk, LAMBDA e : e.seq_num # s)
\* self.packets[seq_num] = {...}: a new key goes last, a known key keeps
\* its place
SW_set(pk, e) ==
    IF e.seq_num \in SW_keys(pk)
    THEN [i \in 1..Len(pk) |-> IF pk[i].seq_num = e.seq_num THEN e ELSE pk[i]]
    ELSE Append(pk, e)

\* the packet bytes the caller hands over for seq_num
SW_packet(seq_num) == [packet_id |-> seq_num]

\* SlidingWindow.can_send (lines 23-26)
SW_can_send(nseq, b, wsize) == nseq < b + wsize

\* line 69: the entry has waited longer than the timeout
SW_timed_out(e) == e.time > ACK_TIMEOUT

\* line 70: the retry ceiling is reached
SW_exhausted_gt(resends) == resends > MAX_RESENDS
SW_exhausted(resends) == resends >= MAX_RESENDS

\* lines 56-57: the while loop that moves base past sent entries
RECURSIVE SW_skip(_, _)
SW_skip(b, pk) == IF b \in SW_keys(pk) THEN SW_skip(b + 1, pk) ELSE b

\* ack_received with the window moved for every acknowledgment, also of a
\* number that is not in the window
SW_ack_received_any(pk, b, seq_num) ==
    LET pk2 == SW_del(pk, seq_num)
    IN [packets |-> pk2,
        base    |-> IF seq_num >= b THEN SW_skip(seq_num + 1, pk2) ELSE b,
        called  |-> IF seq_num \in SW_keys(pk) /\ SW_get(pk, seq_num).callback
                    THEN <<TRUE>> ELSE <<>>,
        ret     |-> seq_num \in SW_keys(pk)]

\* ack_received without the `del self.packets[seq_num]` of line 51
SW_ack_received_keep(pk, b, seq_num) ==
    IF seq_num \in SW_keys(pk)
    THEN LET e == SW_get(pk, seq_num)
         IN [packets  |-> pk,
             base     |-> IF seq_num >= b THEN SW_skip(seq_num + 1, pk) ELSE b,
             called   |-> IF e.callback THEN <<TRUE>> ELSE <<>>,
             ret      |-> TRUE]
    ELSE [packets |-> pk, base |-> b, called |-> <<>>, ret |-> FALSE]

\* SlidingWindow.ack_received (lines 39-60)
SW_ack_received(pk, b, seq_num) ==
    IF seq_num \in SW_keys(pk)
    THEN LET e   == SW_get(pk, seq_num)
             pk2 == SW_del(pk, seq_num)
         IN [packets  |-> pk2,
             base     |-> IF seq_num >= b THEN SW_skip(seq_num + 1, pk2) ELSE b,
             called   |-> IF e.callback THEN <<TRUE>> ELSE <<>>,
             ret      |-> TRUE]
    ELSE [packets |-> pk, base |-> b, called |-> <<>>, ret |-> FALSE]

\* SlidingWindow.get_resend_packets (lines 62-82): the for loop over
\* list(self.packets.items()), entry i onwards; acc = [packets, resend_list,
\* failed] with failed the seq_nums whose callback got False
RECURSIVE SW_resend_loop(_, _, _)
SW_resend_loop(items, i, acc) ==
    IF i > Len(items) THEN acc
    ELSE LET e == items[i]
         IN IF ~SW_timed_out(e) THEN SW_resend_loop(items, i + 1, acc)
            ELSE IF SW_exhausted(e.resends)
            THEN SW_resend_loop(items, i + 1,
                    [packets     |-> SW_del(acc.packets, e.seq_num),
                     resend_list |-> acc.resend_list,
                     failed      |-> IF e.callback
                                     THEN Append(acc.failed, e.seq_num)
                                     ELSE acc.failed])
            ELSE SW_resend_loop(items, i + 1,
                    [packets     |-> SW_set(acc.packets,
                                       [e EXCEPT !.resends = @ + 1, !.time = 0]),
                     resend_list |-> Append(acc.resend_list,
                                            <<e.seq_num, e.packet>>),
                     failed      |-> acc.failed])

SW_get_resend_packets(pk) ==
    SW_resend_loop(pk, 1, [packets |-> pk, resend_list |-> <<>>, failed |-> <<>>])

InitSWVars ==
    /\ sw_window_size \in 1..SWMaxWin
    /\ base = 0
    /\ next_seq = 0
    /\ packets = <<>>
    /\ closed = FALSE
    /\ sw_resent = [s \in SWSeqNums |-> 0]
    /\ sw_callbacks = [s \in SWSeqNums |-> <<>>]
    /\ sw_adds = 0

IdleSW ==
    /\ sw_window_size = 0
    /\ base = 0
    /\ next_seq = 0
    /\ packets = <<>>
    /\ closed = FALSE
    /\ sw_resent = [s \in SWSeqNums |-> 0]
    /\ sw_callbacks = [s \in SWSeqNums |-> <<>>]
    /\ sw_adds = 0

\* window.add_packet(seq_num, packet, callback) after can_send() returned True
SWAddPacket(seq_num, cb) ==
    /\ sw_adds < SWMaxAdds
    /\ SW_can_send(next_seq, base, sw_window_size)
    /\ packets' = SW_set(packets, [seq_num |-> seq_num,
                                   packet |-> SW_packet(seq_num),
                                   time |-> 0, resends |-> 0, callback |-> cb])
    /\ sw_resent' = [sw_resent EXCEPT ![seq_num] = 0]
    /\ sw_adds' = sw_adds + 1
    /\ UNCHANGED <<sw_window_size, base, next_seq, closed, sw_callbacks>>
    /\ UNCHANGED notSW

\* window.ack_received(seq_num)
SWAckReceived(seq_num) ==
    /\ LET r == SW_ack_received(packets, base, seq_num)
       IN /\ packets' = r.packets
          /\ base' = r.base
          /\ sw_callbacks' = [sw_callbacks EXCEPT ![seq_num] = @ \o r.called]
    /\ UNCHANGED <<sw_window_size, next_seq, closed, sw_resent, sw_adds>>
    /\ UNCHANGED notSW

\* window.get_resend_packets()
SWGetResendPackets ==
    /\ LET r == SW_get_resend_packets(packets)
           resent == {r.resend_list[i][1] : i \in 1..Len(r.resend_list)}
           failed == {r.failed[i] : i \in 1..Len(r.failed)}
       IN /\ packets' = r.packets
          /\ sw_resent' = [s \in SWSeqNums |->
                              IF s \in resent THEN sw_resent[s] + 1
                              ELSE sw_resent[s]]
          /\ sw_callbacks' = [s \in SWSeqNums |->
                                 IF s \in failed
                                 THEN Append(sw_callbacks[s], FALSE)
                                 ELSE sw_callbacks[s]]
    /\ UNCHANGED <<sw_window_size, base, next_seq, closed, sw_adds>>
    /\ UNCHANGED notSW

\* SlidingWindow.close (lines 95-102)
SWClose ==
    /\ ~closed
    /\ closed' = TRUE
    /\ sw_callbacks' = [s \in SWSeqNums |->
                           IF s \in SW_keys(packets) /\ SW_get(packets, s).callback
                           THEN Append(sw_callbacks[s], FALSE)
                           ELSE sw_callbacks[s]]
    /\ packets' = <<>>
    /\ UNCHANGED <<sw_window_size, base, next_seq, sw_resent, sw_adds>>
    /\ UNCHANGED notSW

\* time.time() advances by one tick
SWTick ==
    /\ \E i \in 1..Len(packets) : ~SW_timed_out(packets[i])
    /\ packets' = [i \in 1..Len(packets) |->
                      IF SW_timed_out(packets[i]) THEN packets[i]
                      ELSE [packets[i] EXCEPT !.time = @ + 1]]
    /\ UNCHANGED <<sw_window_size, base, next_seq, closed, sw_resent, sw_callbacks, sw_adds>>
    /\ UNCHANGED notSW


(***************************************************************************)
(* Packet codec.  bytes objects are sequences of numbers 0..255.           *)
(***************************************************************************)
\* n fits an unsigned field of w bytes (struct.pack raises struct.error
\* otherwise)
CP_fits(n, w) == n >= 0 /\ (n \div (256 ^ (w - 1))) < 256

\* struct.pack of one unsigned field of w bytes in network byte order ('!')
CP_pack_le(n, w) == [i \in 1..w |-> (n \div (256 ^ (i - 1))) % 256]
CP_pack(n, w) == [i \in 1..w |-> (n \div (256 ^ (w - i))) % 256]

\* struct.unpack of one unsigned field in network byte order
RECURSIVE CP_unpack(_)
CP_unpack(bytes) ==
    IF bytes = <<>> THEN 0
    ELSE CP_unpack(SubSeq(bytes, 1, Len(bytes) - 1)) * 256 + bytes[Len(bytes)]

\* the Python slice b[lo:hi] (0-based, hi exclusive, cut at the end of b)
CP_slice(b, lo, hi) ==
    LET h == IF hi > Len(b) THEN Len(b) ELSE hi
    IN IF lo >= h THEN <<>> ELSE SubSeq(b, lo + 1, h)

\* create_packet (lines 35-51); raised is TRUE when struct.pack raises
CP_create_packet(request_id, packet_id, total_packets, flags, data) ==
    IF /\ CP_fits(request_id, W_REQUEST_ID)
       /\ CP_fits(packet_id, W_PACKET_ID)
       /\ CP_fits(total_packets, W_TOTAL)
       /\ CP_fits(flags, W_FLAGS)
       /\ CP_fits(Len(data), W_DATA_SIZE)
    THEN [raised |-> FALSE,
          packet |-> CP_pack(MAGIC, W_MAGIC) \o CP_pack(request_id, W_REQUEST_ID)
                     \o CP_pack(packet_id, W_PACKET_ID)
                     \o CP_pack(total_packets, W_TOTAL)
                     \o CP_pack(flags, W_FLAGS)
                     \o CP_pack(Len(data), W_DATA_SIZE) \o data]
    ELSE [raised |-> TRUE, packet |-> <<>>]

\* the tuple parse_packet returns, and its None
CP_none == [none |-> TRUE, request_id |-> 0, packet_id |-> 0,
            total_packets |-> 0, flags |-> 0, data |-> <<>>]
CP_tuple(request_id, packet_id, total_packets, flags, data) ==
    [none |-> FALSE, request_id |-> request_id, packet_id |-> packet_id,
     total_packets |-> total_packets, flags |-> flags, data |-> data]

\* parse_packet with the datagram dropped when the payload is not of the
\* declared length
CP_parse_packet_strict(packet) ==
    IF Len(packet) < PACKET_HEADER_SIZE THEN CP_none
    ELSE LET magic         == CP_unpack(CP_slice(packet, 0, 2))
             request_id    == CP_unpack(CP_slice(packet, 2, 4))
             packet_id     == CP_unpack(CP_slice(packet, 4, 8))
             total_packets == CP_unpack(CP_slice(packet, 8, 12))
             flags         == CP_unpack(CP_slice(packet, 12, 13))
             data_size     == CP_unpack(CP_slice(packet, 13, 15))
             data          == CP_slice(packet, PACKET_HEADER_SIZE,
                                       PACKET_HEADER_SIZE + data_size)
         IN IF magic # MAGIC \/ Len(data) # data_size THEN CP_none
            ELSE CP_tuple(request_id, packet_id, total_packets, flags, data)

\* parse_packet (lines 54-81)
CP_parse_packet(packet) ==
    IF Len(packet) < PACKET_HEADER_SIZE THEN CP_none
    ELSE LET magic         == CP_unpack(CP_slice(packet, 0, 2))
             request_id    == CP_unpack(CP_slice(packet, 2, 4))
             packet_id     == CP_unpack(CP_slice(packet, 4, 8))
             total_packets == CP_unpack(CP_slice(packet, 8, 12))
             flags         == CP_unpack(CP_slice(packet, 12, 13))
             data_size     == CP_unpack(CP_slice(packet, 13, 15))
             data          == CP_slice(packet, PACKET_HEADER_SIZE,
                                       PACKET_HEADER_SIZE + data_size)
         IN IF magic # MAGIC THEN CP_none
            ELSE CP_tuple(request_id, packet_id, total_packets, flags,
                          IF Len(data) # data_size
                          THEN CP_slice(packet, PACKET_HEADER_SIZE, Len(packet))
                          ELSE data)

\* the arguments create_packet is called with
CDRequestIds == {0, 1, 65535}
CDPacketIds == {0, 1000, 2147483647}
CDTotals == {1, 2147483647}
CDFlags == {FLAG_DATA, FLAG_ACK, FLAG_START + FLAG_END, FLAG_DATA + FLAG_END, 255}
CDLengths == (0..CDMaxShort) \cup {DATA_SIZE_MAX, DATA_SIZE_MAX + 1}
CDData(n) == [i \in 1..n |-> (i * 7) % 256]

CDNoArgs == [request_id |-> 0, packet_id |-> 0, total_packets |-> 0,
             flags |-> 0, data |-> <<>>]

InitCDVars ==
    /\ cd_args = CDNoArgs
    /\ cd_wire = <<>>
    /\ cd_parsed = CP_none
    /\ cd_pc = "idle"

IdleCD == InitCDVars

\* packet = create_packet(request_id, packet_id, total_packets, flags, data)
CDCreate(request_id, packet_id, total_packets, flags, n) ==
    /\ cd_pc = "idle"
    /\ LET r == CP_create_packet(request_id, packet_id, total_packets, flags,
                                 CDData(n))
       IN /\ cd_wire' = r.packet
          /\ cd_pc' = IF r.raised THEN "raised" ELSE "created"
    /\ cd_args' = [request_id |-> request_id, packet_id |-> packet_id,
                   total_packets |-> total_packets, flags |-> flags,
                   data |-> CDData(n)]
    /\ UNCHANGED cd_parsed
    /\ UNCHANGED notCD

\* sendto / recvfrom: the datagram arrives as it was sent
CDDeliver ==
    /\ cd_pc = "created"
    /\ cd_pc' = "received"
    /\ UNCHANGED <<cd_args, cd_wire, cd_parsed>>
    /\ UNCHANGED notCD

\* recvfrom(bufsize) with a datagram longer than bufsize: only its first k
\* bytes arrive
CDDeliverTruncated(k) ==
    /\ cd_pc = "created"
    /\ k < Len(cd_wire)
    /\ cd_wire' = SubSeq(cd_wire, 1, k)
    /\ cd_pc' = "received"
    /\ UNCHANGED <<cd_args, cd_parsed>>
    /\ UNCHANGED notCD

\* a datagram of another protocol arrives: its first two bytes are not MAGIC
CDDeliverForeign ==
    /\ cd_pc = "created"
    /\ cd_wire' = [cd_wire EXCEPT ![1] = (@ + 1) % 256]
    /\ cd_pc' = "received"
    /\ UNCHANGED <<cd_args, cd_parsed>>
    /\ UNCHANGED notCD

\* result = parse_packet(data)
CDParse ==
    /\ cd_pc = "received"
    /\ cd_parsed' = CP_parse_packet(cd_wire)
    /\ cd_pc' = "parsed"
    /\ UNCHANGED <<cd_args, cd_wire>>
    /\ UNCHANGED notCD


(***************************************************************************)
(* TCP streams.  A stream is a sequence of elements: the text of a line    *)
(* (Txt), the newline that ends it (NL) or one byte of file data (Byte).   *)
(* The text of a line is kept whole: cmd is its keyword, a and n are its   *)
(* name and number arguments.                                              *)
(***************************************************************************)
Txt(cmd, a, n) == [k |-> "txt", cmd |-> cmd, a |-> a, n |-> n]
NL == [k |-> "nl", cmd |-> "", a |-> "", n |-> 0]
Byte(v) == [k |-> "byte", cmd |-> "", a |-> "", n |-> v]

\* a file: whether it exists and the elements written to it
NoFile == [exists |-> FALSE, data |-> <<>>]
File(data) == [exists |-> TRUE, data |-> data]
\* the bytes of the file stored on the server and of a partial copy of it
FileBytes(n) == [i \in 1..n |-> Byte(10 + i)]

\* data[:n] and data[n:]
Take(q, n) == IF n >= Len(q) THEN q ELSE IF n <= 0 THEN <<>> ELSE SubSeq(q, 1, n)
Drop(q, n) == IF n >= Len(q) THEN <<>> ELSE IF n <= 0 THEN q
              ELSE SubSeq(q, n + 1, Len(q))
Min(a, b) == IF a < b THEN a ELSE b

HasNL(q) == \E i \in 1..Len(q) : q[i] = NL
FirstNL(q) == CHOOSE i \in 1..Len(q) : q[i] = NL /\ \A j \in 1..(i - 1) : q[j] # NL

NoUpload == [active |-> FALSE, filename |-> "", filesize |-> 0, received |-> 0]
NoDownload == [active |-> FALSE, filename |-> "", filesize |-> 0, offset |-> 0,
               sent |-> 0, pos |-> 0]
InSelect == [at |-> "select", s |-> 0, filename |-> "", filesize |-> 0,
             data |-> <<>>]

\* the replies of the server
ReplyClosing == Txt("closing", "", 0)
ReplyTime == Txt("time", "", 0)
ReplyEcho(t) == Txt("echo", t.a, t.n)
ReplyBadUpload == Txt("ERROR: bad UPLOAD format", "", 0)
ReplyUnknown == Txt("unknown command", "", 0)
ReplyNotFound == Txt("ERROR: file not found", "", 0)
ReplyException == Txt("ERROR: exception", "", 0)
ReplyFilesize(n) == Txt("FILESIZE", "", n)
ReplyUploaded(name) == Txt("uploaded", name, 0)
ReplyOK == Txt("OK", "", 0)
\* response.startswith("ERROR")
IsErrorReply(t) == t \in {ReplyBadUpload, ReplyNotFound, ReplyException}

(***************************************************************************)
(* lab03 TCPServerHandler.  The operators work on the part of the server   *)
(* state one socket event can change:                                      *)
(*   st = [buffer, out, upload_state, download_state, uploads, cmds,       *)
(*         sent_file, offset_str, close, pc]                               *)
(* out is what send_all put on the socket, close the `return True` of      *)
(* process_command, pc the place the handler is suspended at.              *)
(***************************************************************************)
\* command (line 697) read as the code reads it: the keyword it starts with.
\* A line with anything after its text no longer names a stored file or a
\* number.
CmdOf(line) ==
    IF line = <<>> THEN Txt("", "", 0)
    ELSE IF line[1].k # "txt" THEN Txt("?", "", 0)
    ELSE IF Len(line) = 1 THEN line[1]
    ELSE IF line[1].cmd = "UPLOAD" THEN Txt("UPLOAD_NAN", line[1].a, 0)
    ELSE IF line[1].cmd = "DOWNLOAD" THEN Txt("DOWNLOAD", "?", 0)
    ELSE IF line[1].cmd = "ECHO" THEN Txt("ECHO", "?", 0)
    ELSE Txt("?", "", 0)

\* _handle_upload_nonblocking (lines 118-131): open(filepath, "wb") creates or
\* empties the file
TCP_handle_upload(st, filename, filesize) ==
    [st EXCEPT !.upload_state = [active |-> TRUE, filename |-> filename,
                                 filesize |-> filesize, received |-> 0],
               !.uploads = [@ EXCEPT ![filename] = File(<<>>)]]

\* _handle_download_nonblocking up to the call of recv_until (lines 84-95)
TCP_handle_download_begin(st, s, filename) ==
    IF filename \notin StoredNames \/ ~st.uploads[filename].exists
    THEN [st EXCEPT !.out = @ \o <<ReplyNotFound, NL>>]
    ELSE LET filesize == Len(st.uploads[filename].data)
         IN [st EXCEPT !.out = @ \o <<ReplyFilesize(filesize), NL>>,
                       !.sent_file = <<>>,
                       !.offset_str = <<>>,
                       !.pc = [at |-> "recv_until", s |-> s,
                               filename |-> filename, filesize |-> filesize,
                               data |-> <<>>]]

\* line 96: int(offset_str) if offset_str.isdigit() else 0
TCP_offset_of(line) ==
    IF Len(line) = 1 /\ line[1].k = "txt" /\ line[1].cmd = "NUM"
    THEN line[1].n ELSE 0

\* _handle_download_nonblocking after recv_until returned or raised
\* (lines 96-113)
TCP_handle_download_start(st, offset) ==
    [st EXCEPT !.download_state =
                   [active |-> TRUE, filename |-> st.pc.filename,
                    filesize |-> st.pc.filesize, offset |-> offset,
                    sent |-> offset, pos |-> offset],
               !.pc = InSelect]

\* process_command (lines 38-79)
TCP_process_command(st0, s, command) ==
    LET st == [st0 EXCEPT !.cmds = Append(@, command)]
    IN IF command.cmd = "CLOSE"
       THEN [st EXCEPT !.out = @ \o <<ReplyClosing, NL>>, !.close = TRUE]
       ELSE IF command.cmd = "TIME"
       THEN [st EXCEPT !.out = @ \o <<ReplyTime, NL>>]
       ELSE IF command.cmd = "ECHO"
       THEN [st EXCEPT !.out = @ \o <<ReplyEcho(command), NL>>]
       ELSE IF command.cmd = "UPLOAD"
       THEN TCP_handle_upload(st, command.a, command.n)
       ELSE IF command.cmd = "UPLOAD_ARITY"
       THEN [st EXCEPT !.out = @ \o <<ReplyBadUpload, NL>>]
       ELSE IF command.cmd = "UPLOAD_NAN"
       THEN [st EXCEPT !.out = @ \o <<ReplyException, NL>>]
       ELSE IF command.cmd = "DOWNLOAD"
       THEN TCP_handle_download_begin(st, s, command.a)
       ELSE [st EXCEPT !.out = @ \o <<ReplyUnknown, NL>>]

\* the while loop of _handle_tcp_event (lines 695-705); it stops when the
\* buffer holds no complete line, when a command asks to close, or when
\* process_command is suspended in recv_until
RECURSIVE TCP_command_loop(_, _)
TCP_command_loop(st, s) ==
    IF ~HasNL(st.buffer) THEN st
    ELSE LET i    == FirstNL(st.buffer)
             line == Take(st.buffer, i - 1)
             st1  == TCP_process_command(
                         [st EXCEPT !.buffer = Drop(st.buffer, i)], s,
                         CmdOf(line))
         IN IF st1.close \/ st1.pc.at # "select" THEN st1
            ELSE TCP_command_loop(st1, s)

\* the upload branch of _handle_tcp_event (lines 647-668)
TCP_upload_event(st, data) ==
    LET state     == st.upload_state
        remaining == state.filesize - state.received
        chunk     == Take(data, remaining)
        received  == state.received + Len(chunk)
        extra     == Drop(data, Len(chunk))
        written   == [st.uploads EXCEPT ![state.filename] =
                          File(@.data \o chunk)]
    IN IF received >= state.filesize
       THEN [st EXCEPT !.uploads = written,
                       !.upload_state = NoUpload,
                       !.out = @ \o <<ReplyUploaded(state.filename), NL>>,
                       !.buffer = @ \o extra]
       ELSE [st EXCEPT !.uploads = written,
                       !.upload_state = [state EXCEPT !.received = received],
                       !.buffer = @ \o extra]

\* the download branch of _handle_tcp_event (lines 671-687); the bytes just
\* read from the socket are not used
TCP_download_event(st) ==
    LET state     == st.download_state
        remaining == state.filesize - state.sent
    IN IF remaining > 0
       THEN LET chunk_size == Min(BUFFER_SIZE, remaining)
                data == Take(Drop(st.uploads[state.filename].data, state.pos),
                             chunk_size)
            IN [st EXCEPT !.out = @ \o data,
                          !.sent_file = @ \o data,
                          !.download_state =
                              [state EXCEPT !.sent = @ + Len(data),
                                            !.pos = @ + Len(data)]]
       ELSE [st EXCEPT !.download_state = NoDownload]

\* _handle_tcp_event after a non-empty recv (lines 646-711).  No socket has
\* upload_state, download_state or buffer when attributes cannot be stored:
\* line 691 raises AttributeError and lines 709-710 close the connection.
TCP_handle_data(st, s, data, attrs) ==
    IF ~attrs THEN [st EXCEPT !.close = TRUE]
    ELSE IF st.upload_state.active THEN TCP_upload_event(st, data)
    ELSE IF st.download_state.active THEN TCP_download_event(st)
    ELSE TCP_command_loop([st EXCEPT !.buffer = @ \o data], s)


(***************************************************************************)
(* lab03 Server.start: the select loop and the events it dispatches        *)
(***************************************************************************)
\* what one socket event of connection s can change
SrvView(s) ==
    [buffer |-> sock_buffer[s], out |-> s2c[s],
     upload_state |-> upload_state[s], download_state |-> download_state[s],
     uploads |-> uploads, cmds |-> srv_cmds[s], sent_file |-> srv_file_sent[s],
     offset_str |-> srv_offset_str[s],
     close |-> FALSE, pc |-> srv_pc]

\* store the result st of an event of connection s; st.close leads to
\* _close_tcp_client (lines 713-729)
SrvApply(s, st) ==
    /\ sock_buffer' = [sock_buffer EXCEPT ![s] = st.buffer]
    /\ s2c' = [s2c EXCEPT ![s] = st.out]
    /\ upload_state' = [upload_state EXCEPT ![s] = st.upload_state]
    /\ download_state' = [download_state EXCEPT ![s] = st.download_state]
    /\ uploads' = st.uploads
    /\ srv_cmds' = [srv_cmds EXCEPT ![s] = st.cmds]
    /\ srv_file_sent' = [srv_file_sent EXCEPT ![s] = st.sent_file]
    /\ srv_offset_str' = [srv_offset_str EXCEPT ![s] = st.offset_str]
    /\ srv_pc' = st.pc
    /\ tcp_clients' = IF st.close THEN tcp_clients \ {s} ELSE tcp_clients
    /\ sock_closed' = IF st.close THEN sock_closed \cup {s} ELSE sock_closed

\* lines 609-614: the listening socket is readable
SrvAccept(s) ==
    /\ server = "lab03"
    /\ srv_pc.at = "select"
    /\ s \in listen_q
    /\ listen_q' = listen_q \ {s}
    /\ tcp_clients' = tcp_clients \cup {s}
    /\ UNCHANGED <<sock_closed, sock_buffer, upload_state, download_state,
                   uploads, srv_pc, srv_cmds, srv_file_sent, srv_offset_str>>
    /\ UNCHANGED <<netVars, clVars>>
    /\ UNCHANGED <<cfgVars, th>>
    /\ UNCHANGED notTCP

\* lines 622-624 and _handle_tcp_event: client socket s is readable and
\* recv(BUFFER_SIZE) returns the next k bytes
SrvTcpEvent(s, k) ==
    /\ server = "lab03"
    /\ srv_pc.at = "select"
    /\ s \in tcp_clients
    /\ k >= 1 /\ k <= Len(c2s[s]) /\ k <= BUFFER_SIZE
    /\ c2s' = [c2s EXCEPT ![s] = Drop(@, k)]
    /\ SrvApply(s, TCP_handle_data(SrvView(s), s, Take(c2s[s], k), sock_attrs))
    /\ UNCHANGED <<listen_q, c_eof>>
    /\ UNCHANGED clVars
    /\ UNCHANGED <<cfgVars, th>>
    /\ UNCHANGED notTCP

\* lines 640-644: recv returns b"" because the client closed the connection
SrvTcpEof(s) ==
    /\ server = "lab03"
    /\ srv_pc.at = "select"
    /\ s \in tcp_clients
    /\ c2s[s] = <<>> /\ c_eof[s]
    /\ tcp_clients' = tcp_clients \ {s}
    /\ sock_closed' = sock_closed \cup {s}
    /\ UNCHANGED <<listen_q, sock_buffer, upload_state, download_state,
                   uploads, srv_pc, srv_cmds, srv_file_sent, srv_offset_str>>
    /\ UNCHANGED <<netVars, clVars>>
    /\ UNCHANGED <<cfgVars, th>>
    /\ UNCHANGED notTCP

\* recv_until (socket_handler.py:30-54) called at server.py:95: one recv(1)
\* that returns a byte.  With the newline the offset line is complete:
\* _handle_download_nonblocking goes on and, after it, the while loop of
\* _handle_tcp_event that called process_command.
SrvRecvUntilByte(s) ==
    /\ server = "lab03"
    /\ srv_pc.at = "recv_until" /\ srv_pc.s = s
    /\ c2s[s] # <<>>
    /\ c2s' = [c2s EXCEPT ![s] = Tail(@)]
    /\ IF Head(c2s[s]) = NL
       THEN SrvApply(s, TCP_command_loop(
                TCP_handle_download_start(
                    [SrvView(s) EXCEPT !.offset_str = srv_pc.data],
                    TCP_offset_of(srv_pc.data)), s))
       ELSE /\ srv_pc' = [srv_pc EXCEPT !.data = Append(@, Head(c2s[s]))]
            /\ UNCHANGED <<tcp_clients, sock_closed, sock_buffer,
                           upload_state, download_state, uploads, srv_cmds,
                           srv_file_sent, srv_offset_str, s2c>>
    /\ UNCHANGED <<listen_q, c_eof>>
    /\ UNCHANGED clVars
    /\ UNCHANGED <<cfgVars, th>>
    /\ UNCHANGED notTCP

\* recv_until raises ConnectionError (recv(1) returned b""); line 97-98
\* set offset = 0 and the download is set up all the same
SrvRecvUntilEof(s) ==
    /\ server = "lab03"
    /\ srv_pc.at = "recv_until" /\ srv_pc.s = s
    /\ c2s[s] = <<>> /\ c_eof[s]
    /\ SrvApply(s, TCP_command_loop(
           TCP_handle_download_start(SrvView(s), 0), s))
    /\ UNCHANGED <<listen_q, c2s, c_eof>>
    /\ UNCHANGED clVars
    /\ UNCHANGED <<cfgVars, th>>
    /\ UNCHANGED notTCP

(***************************************************************************)
(* lab02 server: _run_tcp_server starts one handle_client thread per       *)
(* connection; the thread blocks in recv_until and recv_exact on its own   *)
(* socket.                                                                 *)
(***************************************************************************)
L2NoThread == [at |-> "none", client_id |-> "", filename |-> "",
               filesize |-> 0, final |-> "", data |-> <<>>]

\* recv_until has a whole line to return
L2LineReady(s) == HasNL(c2s[s])
L2Line(s) == Take(c2s[s], FirstNL(c2s[s]) - 1)
L2AfterLine(s) == Drop(c2s[s], FirstNL(c2s[s]))
\* recv returns b"" before the delimiter: recv_until raises ConnectionError
L2Eof(s) == ~HasNL(c2s[s]) /\ c_eof[s]

\* the finally clause of handle_client (lines 91-93)
L2Close(s) ==
    /\ tcp_clients' = tcp_clients \ {s}
    /\ sock_closed' = sock_closed \cup {s}

\* _run_tcp_server (lines 545-567): accept and start the thread
L2Accept(s) ==
    /\ server = "lab02"
    /\ s \in listen_q
    /\ listen_q' = listen_q \ {s}
    /\ tcp_clients' = tcp_clients \cup {s}
    /\ th' = [th EXCEPT ![s].at = "hello"]
    /\ UNCHANGED <<sock_closed, sock_buffer, upload_state, download_state,
                   uploads, srv_pc, srv_cmds, srv_file_sent, srv_offset_str>>
    /\ UNCHANGED <<cfgVars, netVars, clVars>>
    /\ UNCHANGED notTCP

\* handle_client, lines 37-42: the identification line; OK whatever it holds
L2Hello(s) ==
    /\ server = "lab02"
    /\ th[s].at = "hello"
    /\ L2LineReady(s)
    /\ LET data == CmdOf(L2Line(s))
       IN th' = [th EXCEPT ![s].at = "loop",
                           ![s].client_id = IF data.cmd = "CLIENT" THEN data.a
                                            ELSE "addr"]
    /\ c2s' = [c2s EXCEPT ![s] = L2AfterLine(s)]
    /\ s2c' = [s2c EXCEPT ![s] = @ \o <<ReplyOK, NL>>]
    /\ UNCHANGED <<srvVars, cfgVars, c_eof, clVars>>
    /\ UNCHANGED notTCP

\* _handle_upload, lines 105-110: the path the upload will be moved to
L2_final_path(files, filename) ==
    IF files[filename].exists THEN Renamed(filename) ELSE filename

\* _handle_download, lines 142-153: the file is looked up under UPLOADS_DIR
L2_found(files, filename) ==
    filename \in StoredNames /\ files[filename].exists

\* _handle_download, lines 188-205: what the send loop reads from the file
\* of `filesize` bytes and sends, starting at offset
L2_download_data(file, filesize, offset) ==
    Take(Drop(file.data, offset), filesize - offset)

\* handle_client, lines 45-87: one command of the loop
L2Command(s) ==
    /\ server = "lab02"
    /\ th[s].at = "loop"
    /\ L2LineReady(s)
    /\ c2s' = [c2s EXCEPT ![s] = L2AfterLine(s)]
    /\ LET command == CmdOf(L2Line(s))
       IN IF command.cmd = ""
          THEN /\ L2Close(s)
               /\ th' = [th EXCEPT ![s].at = "done"]
               /\ UNCHANGED <<s2c, uploads, srv_cmds>>
          ELSE /\ srv_cmds' = [srv_cmds EXCEPT ![s] = Append(@, command)]
               /\ IF command.cmd = "CLOSE"
                  THEN /\ s2c' = [s2c EXCEPT ![s] = @ \o <<ReplyClosing, NL>>]
                       /\ L2Close(s)
                       /\ th' = [th EXCEPT ![s].at = "done"]
                       /\ UNCHANGED uploads
                  ELSE IF command.cmd = "UPLOAD"
                  THEN LET final == L2_final_path(uploads, command.a)
                       IN IF command.n > 0
                          THEN /\ th' = [th EXCEPT ![s].at = "upload",
                                                   ![s].filename = command.a,
                                                   ![s].filesize = command.n,
                                                   ![s].final = final,
                                                   ![s].data = <<>>]
                               /\ UNCHANGED <<s2c, uploads, tcp_clients,
                                              sock_closed>>
                          ELSE /\ uploads' = [uploads EXCEPT ![final] = File(<<>>)]
                               /\ s2c' = [s2c EXCEPT ![s] =
                                             @ \o <<ReplyUploaded(final), NL>>]
                               /\ UNCHANGED <<th, tcp_clients, sock_closed>>
                  ELSE IF command.cmd = "DOWNLOAD" /\ L2_found(uploads, command.a)
                  THEN /\ s2c' = [s2c EXCEPT ![s] = @ \o
                              <<ReplyFilesize(Len(uploads[command.a].data)), NL>>]
                       /\ th' = [th EXCEPT ![s].at = "offset",
                                   ![s].filename = command.a,
                                   ![s].filesize = Len(uploads[command.a].data)]
                       /\ UNCHANGED <<uploads, tcp_clients, sock_closed>>
                  ELSE /\ s2c' = [s2c EXCEPT ![s] = @ \o
                              <<(CASE command.cmd = "TIME" -> ReplyTime
                                   [] command.cmd = "ECHO" -> ReplyEcho(command)
                                   [] command.cmd = "UPLOAD_NAN" -> ReplyException
                                   [] command.cmd = "DOWNLOAD" -> ReplyNotFound
                                   [] OTHER -> ReplyUnknown), NL>>]
                       /\ UNCHANGED <<th, uploads, tcp_clients, sock_closed>>
    /\ LET begins == L2_found(uploads, CmdOf(L2Line(s)).a)
                         /\ CmdOf(L2Line(s)).cmd = "DOWNLOAD"
       IN /\ srv_file_sent' = IF begins THEN [srv_file_sent EXCEPT ![s] = <<>>]
                              ELSE srv_file_sent
          /\ srv_offset_str' = IF begins THEN [srv_offset_str EXCEPT ![s] = <<>>]
                               ELSE srv_offset_str
    /\ UNCHANGED <<listen_q, sock_buffer, upload_state, download_state, srv_pc>>
    /\ UNCHANGED <<cfgVars, c_eof, clVars>>
    /\ UNCHANGED notTCP

\* _handle_upload, lines 113-129: one recv_exact of the receive loop and,
\* after the last, the move to the final path and the reply
L2UploadChunk(s) ==
    /\ server = "lab02"
    /\ th[s].at = "upload"
    /\ LET chunk_size == Min(BUFFER_SIZE, th[s].filesize - Len(th[s].data))
           data == th[s].data \o Take(c2s[s], chunk_size)
       IN /\ Len(c2s[s]) >= chunk_size
          /\ c2s' = [c2s EXCEPT ![s] = Drop(@, chunk_size)]
          /\ IF Len(data) < th[s].filesize
             THEN /\ th' = [th EXCEPT ![s].data = data]
                  /\ UNCHANGED <<uploads, s2c>>
             ELSE /\ th' = [th EXCEPT ![s].at = "loop", ![s].data = <<>>]
                  /\ uploads' = [uploads EXCEPT ![th[s].final] = File(data)]
                  /\ s2c' = [s2c EXCEPT ![s] =
                                @ \o <<ReplyUploaded(th[s].final), NL>>]
    /\ UNCHANGED <<listen_q, tcp_clients, sock_closed, sock_buffer,
                   upload_state, download_state, srv_pc, srv_cmds,
                   srv_file_sent, srv_offset_str>>
    /\ UNCHANGED <<cfgVars, c_eof, clVars>>
    /\ UNCHANGED notTCP

\* _handle_upload, lines 131-135: recv_exact raises ConnectionError; the
\* partial file is removed and an error reported
L2UploadError(s) ==
    /\ server = "lab02"
    /\ th[s].at = "upload"
    /\ Len(c2s[s]) < Min(BUFFER_SIZE, th[s].filesize - Len(th[s].data))
    /\ c_eof[s]
    /\ c2s' = [c2s EXCEPT ![s] = <<>>]
    /\ th' = [th EXCEPT ![s].at = "loop", ![s].data = <<>>]
    /\ s2c' = [s2c EXCEPT ![s] = @ \o <<ReplyException, NL>>]
    /\ UNCHANGED <<srvVars, cfgVars, c_eof, clVars>>
    /\ UNCHANGED notTCP

\* _handle_download, lines 175-205: the offset line arrives (or recv_until
\* raises and offset is 0) and the file is sent from offset on
L2Offset(s) ==
    /\ server = "lab02"
    /\ th[s].at = "offset"
    /\ L2LineReady(s) \/ L2Eof(s)
    /\ LET offset == IF L2LineReady(s) THEN TCP_offset_of(L2Line(s)) ELSE 0
           data   == L2_download_data(uploads[th[s].filename],
                                      th[s].filesize, offset)
       IN /\ s2c' = [s2c EXCEPT ![s] = @ \o data]
          /\ srv_file_sent' = [srv_file_sent EXCEPT ![s] = @ \o data]
    /\ srv_offset_str' = [srv_offset_str EXCEPT ![s] =
                              IF L2LineReady(s) THEN L2Line(s) ELSE <<>>]
    /\ c2s' = [c2s EXCEPT ![s] = IF L2LineReady(s) THEN L2AfterLine(s)
                                 ELSE <<>>]
    /\ th' = [th EXCEPT ![s].at = "loop"]
    /\ UNCHANGED <<listen_q, tcp_clients, sock_closed, sock_buffer,
                   upload_state, download_state, uploads, srv_pc, srv_cmds>>
    /\ UNCHANGED <<cfgVars, c_eof, clVars>>
    /\ UNCHANGED notTCP

\* handle_client: recv_until raises ConnectionError at line 37 or 47; the
\* thread ends and closes the socket
L2Disconnected(s) ==
    /\ server = "lab02"
    /\ th[s].at \in {"hello", "loop"}
    /\ L2Eof(s)
    /\ c2s' = [c2s EXCEPT ![s] = <<>>]
    /\ L2Close(s)
    /\ th' = [th EXCEPT ![s].at = "done"]
    /\ UNCHANGED <<listen_q, sock_buffer, upload_state, download_state,
                   uploads, srv_pc, srv_cmds, srv_file_sent, srv_offset_str>>
    /\ UNCHANGED <<cfgVars, s2c, c_eof, clVars>>
    /\ UNCHANGED notTCP

(***************************************************************************)
(* lab04 TCPClientHandler.  The methods connect, _send_simple_command,     *)
(* upload_file, download_file and disconnect are called one after another  *)
(* on the handler of connection s; the clients share one directory.        *)
(***************************************************************************)
\* locals of download_file.  phase is where the last call of it stands:
\* "called", then "complete" (the early return of line 179), "refused" (the
\* returns of lines 159-167), "receiving", and from there "done" or "failed";
\* existing is the size of the local file (-1 without one) when it was
\* called and, once the response is in, as line 172 read it
NoDl == [phase |-> "none", existing |-> -1, filesize |-> 0, offset |-> 0,
         received |-> 0]

\* recv_until on the client: a whole line is there to be read
ClLineReady(s) == HasNL(s2c[s])
ClLine(s) == Take(s2c[s], FirstNL(s2c[s]) - 1)
ClAfterLine(s) == Drop(s2c[s], FirstNL(s2c[s]))

\* connect (lines 28-58) up to recv_until
ClConnect(s, id) ==
    /\ cl_pc[s] = "init"
    /\ cl_cmds < MaxCmds
    /\ listen_q' = listen_q \cup {s}
    /\ c2s' = [c2s EXCEPT ![s] = @ \o <<Txt("CLIENT", id, 0), NL>>]
    /\ cl_pc' = [cl_pc EXCEPT ![s] = "connect_recv"]
    /\ cl_cmds' = cl_cmds + 1
    /\ UNCHANGED <<tcp_clients, sock_closed, sock_buffer, upload_state,
                   download_state, uploads, srv_pc, srv_cmds, srv_file_sent, srv_offset_str>>
    /\ UNCHANGED <<s2c, c_eof, cl_connected, cl_file, cl_dl, cl_sent_offset>>
    /\ UNCHANGED <<cfgVars, th>>
    /\ UNCHANGED notTCP

\* connect, lines 43-51: the response decides self.connected
ClConnectResponse(s) ==
    /\ cl_pc[s] = "connect_recv"
    /\ ClLineReady(s)
    /\ cl_connected' = [cl_connected EXCEPT ![s] = (ClLine(s) = <<ReplyOK>>)]
    /\ s2c' = [s2c EXCEPT ![s] = ClAfterLine(s)]
    /\ cl_pc' = [cl_pc EXCEPT ![s] = "ready"]
    /\ UNCHANGED <<srvVars, c2s, c_eof, cl_file, cl_dl, cl_sent_offset, cl_cmds>>
    /\ UNCHANGED <<cfgVars, th>>
    /\ UNCHANGED notTCP

\* _send_simple_command (lines 106-110) with TIME, up to recv_until
ClSimpleCommand(s) ==
    /\ cl_pc[s] = "ready"
    /\ cl_cmds < MaxCmds
    /\ c2s' = [c2s EXCEPT ![s] = @ \o <<Txt("TIME", "", 0), NL>>]
    /\ cl_pc' = [cl_pc EXCEPT ![s] = "simple_recv"]
    /\ cl_cmds' = cl_cmds + 1
    /\ UNCHANGED <<srvVars, s2c, c_eof, cl_connected, cl_file, cl_dl,
                   cl_sent_offset>>
    /\ UNCHANGED <<cfgVars, th>>
    /\ UNCHANGED notTCP

\* the response of recv_until at line 109 or 145 is printed
ClPrintResponse(s) ==
    /\ cl_pc[s] \in {"simple_recv", "upload_recv"}
    /\ ClLineReady(s)
    /\ s2c' = [s2c EXCEPT ![s] = ClAfterLine(s)]
    /\ cl_pc' = [cl_pc EXCEPT ![s] = "ready"]
    /\ UNCHANGED <<srvVars, c2s, c_eof, cl_connected, cl_file, cl_dl,
                   cl_sent_offset, cl_cmds>>
    /\ UNCHANGED <<cfgVars, th>>
    /\ UNCHANGED notTCP

\* upload_file (lines 112-124): the command line
ClUpload(s, name) ==
    /\ cl_pc[s] = "ready"
    /\ cl_cmds < MaxCmds
    /\ cl_file.exists
    /\ c2s' = [c2s EXCEPT ![s] =
                  @ \o <<Txt("UPLOAD", name, Len(cl_file.data)), NL>>]
    /\ cl_pc' = [cl_pc EXCEPT ![s] = "upload_send"]
    /\ cl_cmds' = cl_cmds + 1
    /\ UNCHANGED <<srvVars, s2c, c_eof, cl_connected, cl_file, cl_dl,
                   cl_sent_offset>>
    /\ UNCHANGED <<cfgVars, th>>
    /\ UNCHANGED notTCP

\* upload_file (lines 129-140): the bytes of the file as it is now
ClUploadData(s) ==
    /\ cl_pc[s] = "upload_send"
    /\ c2s' = [c2s EXCEPT ![s] = @ \o cl_file.data]
    /\ cl_pc' = [cl_pc EXCEPT ![s] = "upload_recv"]
    /\ UNCHANGED <<srvVars, s2c, c_eof, cl_connected, cl_file, cl_dl,
                   cl_sent_offset, cl_cmds>>
    /\ UNCHANGED <<cfgVars, th>>
    /\ UNCHANGED notTCP

\* download_file (lines 151-157) up to recv_until
ClDownload(s, name) ==
    /\ cl_pc[s] = "ready"
    /\ cl_cmds < MaxCmds
    /\ c2s' = [c2s EXCEPT ![s] = @ \o <<Txt("DOWNLOAD", name, 0), NL>>]
    /\ cl_pc' = [cl_pc EXCEPT ![s] = "download_recv"]
    /\ cl_dl' = [cl_dl EXCEPT ![s] =
                    [NoDl EXCEPT !.phase = "called",
                                 !.existing = IF cl_file.exists
                                              THEN Len(cl_file.data) ELSE -1]]
    /\ cl_sent_offset' = [cl_sent_offset EXCEPT ![s] = <<>>]
    /\ cl_cmds' = cl_cmds + 1
    /\ UNCHANGED <<srvVars, s2c, c_eof, cl_connected, cl_file>>
    /\ UNCHANGED <<cfgVars, th>>
    /\ UNCHANGED notTCP

\* lines 170-181: the offset line download_file sends for a local file
\* `file` and the announced filesize: <<>> when it sends none
CL_offset_line(file, filesize) ==
    IF file.exists
    THEN IF Len(file.data) < filesize THEN <<Len(file.data)>> ELSE <<>>
    ELSE <<0>>
\* lines 170-175: offset
CL_offset(file, filesize) ==
    IF file.exists /\ Len(file.data) < filesize THEN Len(file.data) ELSE 0
\* lines 177-179: the early return
CL_already_complete(file, filesize) ==
    file.exists /\ Len(file.data) = filesize

\* download_file, lines 157-192: the response, the offset line and the open
\* of the local file
ClDownloadResponse(s) ==
    /\ cl_pc[s] = "download_recv"
    /\ ClLineReady(s)
    /\ s2c' = [s2c EXCEPT ![s] = ClAfterLine(s)]
    /\ LET response == ClLine(s)
       IN IF Len(response) = 1 /\ response[1].cmd = "FILESIZE"
          THEN LET filesize == response[1].n
                   offset   == CL_offset(cl_file, filesize)
                   line     == CL_offset_line(cl_file, filesize)
               IN IF CL_already_complete(cl_file, filesize)
                  THEN /\ cl_pc' = [cl_pc EXCEPT ![s] = "ready"]
                       /\ cl_dl' = [cl_dl EXCEPT ![s].phase = "complete",
                                                 ![s].existing = filesize,
                                                 ![s].filesize = filesize]
                       /\ UNCHANGED <<c2s, cl_file, cl_sent_offset>>
                  ELSE /\ c2s' = [c2s EXCEPT ![s] =
                              IF line = <<>> THEN @
                              ELSE @ \o <<Txt("NUM", "", line[1]), NL>>]
                       /\ cl_sent_offset' = [cl_sent_offset EXCEPT ![s] = line]
                       /\ cl_file' = IF offset > 0 THEN cl_file ELSE File(<<>>)
                       /\ cl_dl' = [cl_dl EXCEPT
                              ![s].phase = IF offset < filesize
                                           THEN "receiving" ELSE "done",
                              ![s].existing = IF cl_file.exists
                                              THEN Len(cl_file.data) ELSE -1,
                              ![s].filesize = filesize,
                              ![s].offset = offset,
                              ![s].received = offset]
                       /\ cl_pc' = [cl_pc EXCEPT ![s] =
                              IF offset < filesize THEN "download_loop"
                              ELSE "ready"]
          ELSE /\ cl_pc' = [cl_pc EXCEPT ![s] = "ready"]
               /\ cl_dl' = [cl_dl EXCEPT ![s].phase = "refused"]
               /\ UNCHANGED <<c2s, cl_file, cl_sent_offset>>
    /\ UNCHANGED <<srvVars, c_eof, cl_connected, cl_cmds>>
    /\ UNCHANGED <<cfgVars, th>>
    /\ UNCHANGED notTCP

\* download_file, lines 195-199: one round of the receive loop; recv_exact
\* returns when chunk_size bytes have arrived
ClDownloadChunk(s) ==
    /\ cl_pc[s] = "download_loop"
    /\ LET chunk_size == Min(BUFFER_SIZE * 4,
                             cl_dl[s].filesize - cl_dl[s].received)
       IN /\ Len(s2c[s]) >= chunk_size
          /\ s2c' = [s2c EXCEPT ![s] = Drop(@, chunk_size)]
          /\ cl_file' = File(cl_file.data \o Take(s2c[s], chunk_size))
          /\ cl_dl' = [cl_dl EXCEPT
                 ![s].received = @ + chunk_size,
                 ![s].phase = IF cl_dl[s].received + chunk_size
                                    < cl_dl[s].filesize
                              THEN "receiving" ELSE "done"]
          /\ cl_pc' = [cl_pc EXCEPT ![s] =
                 IF cl_dl[s].received + chunk_size < cl_dl[s].filesize
                 THEN "download_loop" ELSE "ready"]
    /\ UNCHANGED <<srvVars, c2s, c_eof, cl_connected, cl_sent_offset, cl_cmds>>
    /\ UNCHANGED <<cfgVars, th>>
    /\ UNCHANGED notTCP

\* recv_until or recv_exact raises ConnectionError: the server has closed
\* the connection; the method ends
ClConnectionError(s) ==
    /\ cl_pc[s] \in {"connect_recv", "simple_recv", "upload_recv",
                     "download_recv", "download_loop"}
    /\ s \in sock_closed
    /\ IF cl_pc[s] = "download_loop"
       THEN Len(s2c[s]) < Min(BUFFER_SIZE * 4,
                              cl_dl[s].filesize - cl_dl[s].received)
       ELSE ~HasNL(s2c[s])
    /\ cl_pc' = [cl_pc EXCEPT ![s] = "ready"]
    /\ cl_connected' = [cl_connected EXCEPT ![s] =
                           IF cl_pc[s] = "connect_recv" THEN FALSE ELSE @]
    /\ cl_dl' = [cl_dl EXCEPT ![s].phase =
                    IF cl_pc[s] \in {"download_recv", "download_loop"}
                    THEN "failed" ELSE @]
    /\ UNCHANGED <<srvVars, netVars, cl_file, cl_sent_offset, cl_cmds>>
    /\ UNCHANGED <<cfgVars, th>>
    /\ UNCHANGED notTCP

\* Client.run, lines 754-756: KeyboardInterrupt while a method waits for the
\* server; the program ends and its socket is closed
ClInterrupt(s) ==
    /\ cl_pc[s] \in {"connect_recv", "simple_recv", "upload_send",
                     "upload_recv", "download_recv", "download_loop"}
    /\ c_eof' = [c_eof EXCEPT ![s] = TRUE]
    /\ cl_connected' = [cl_connected EXCEPT ![s] = FALSE]
    /\ cl_pc' = [cl_pc EXCEPT ![s] = "closed"]
    /\ UNCHANGED <<srvVars, c2s, s2c, cl_file, cl_dl, cl_sent_offset, cl_cmds>>
    /\ UNCHANGED <<cfgVars, th>>
    /\ UNCHANGED notTCP

\* disconnect (lines 60-70)
ClDisconnect(s) ==
    /\ cl_pc[s] = "ready"
    /\ cl_cmds < MaxCmds
    /\ c2s' = [c2s EXCEPT ![s] =
                  IF cl_connected[s] THEN @ \o <<Txt("CLOSE", "", 0), NL>>
                  ELSE @]
    /\ c_eof' = [c_eof EXCEPT ![s] = TRUE]
    /\ cl_connected' = [cl_connected EXCEPT ![s] = FALSE]
    /\ cl_pc' = [cl_pc EXCEPT ![s] = "closed"]
    /\ cl_cmds' = cl_cmds + 1
    /\ UNCHANGED <<srvVars, s2c, cl_file, cl_dl, cl_sent_offset>>
    /\ UNCHANGED <<cfgVars, th>>
    /\ UNCHANGED notTCP

(***************************************************************************)
(* Any TCP peer.  What sock.recv(BUFFER_SIZE) of a server returns is        *)
(* whatever the program at the other end wrote: a peer connects, writes     *)
(* command lines and data bytes without waiting for replies, and closes.    *)
(***************************************************************************)
\* the lines a peer writes
PeerLines ==
    {Txt("UPLOAD", "f", 1), Txt("DOWNLOAD", "f", 0),
     Txt("NUM", "", MaxFile + 1), Txt("TIME", "", 0), Txt("CLOSE", "", 0)}
\* the data byte a peer writes
PeerByte == Byte(99)

\* connect()
PeerConnect(s) ==
    /\ cl_pc[s] = "init"
    /\ cl_cmds < MaxCmds
    /\ listen_q' = listen_q \cup {s}
    /\ cl_pc' = [cl_pc EXCEPT ![s] = "raw"]
    /\ cl_cmds' = cl_cmds + 1
    /\ UNCHANGED <<tcp_clients, sock_closed, sock_buffer, upload_state,
                   download_state, uploads, srv_pc, srv_cmds, srv_file_sent,
                   srv_offset_str>>
    /\ UNCHANGED <<netVars, cl_connected, cl_file, cl_dl, cl_sent_offset>>
    /\ UNCHANGED <<cfgVars, th>>
    /\ UNCHANGED notTCP

\* send() of a line or of a data byte
PeerSend(s, data) ==
    /\ cl_pc[s] = "raw"
    /\ cl_cmds < MaxCmds
    /\ c2s' = [c2s EXCEPT ![s] = @ \o data]
    /\ cl_cmds' = cl_cmds + 1
    /\ UNCHANGED <<srvVars, s2c, c_eof, cl_pc, cl_connected, cl_file, cl_dl,
                   cl_sent_offset>>
    /\ UNCHANGED <<cfgVars, th>>
    /\ UNCHANGED notTCP

\* close()
PeerClose(s) ==
    /\ cl_pc[s] = "raw"
    /\ c_eof' = [c_eof EXCEPT ![s] = TRUE]
    /\ cl_pc' = [cl_pc EXCEPT ![s] = "closed"]
    /\ UNCHANGED <<srvVars, c2s, s2c, cl_connected, cl_file, cl_dl,
                   cl_sent_offset, cl_cmds>>
    /\ UNCHANGED <<cfgVars, th>>
    /\ UNCHANGED notTCP

(***************************************************************************)
(* UDPClientHandler._receive_file_fast (lab04/client.py:498-600)           *)
(***************************************************************************)
\* the packet ids of a download of n packets
UAPacketIds(n) == PACKET_ID_BASE .. (PACKET_ID_BASE + n - 1)
UAAllIds == UAPacketIds(UAMaxPkt)

\* lines 547-549: whether the batch is sent now
UA_ack_due(batch, since_ack) ==
    batch # <<>> /\ (since_ack > ACK_INTERVAL_MS \/ Len(batch) > ACK_BATCH_FORCE)
\* lines 550-553: the acks sent and the batch kept
UA_ack_now(batch) == Take(batch, ACK_SEND_MAX)
UA_ack_rest(batch) == Drop(batch, ACK_SEND_MAX)
\* the time since last_ack after ms more milliseconds
UA_later(since_ack, ms) == Min(since_ack + ms, ACK_INTERVAL_MS + 1)

InitUAVars ==
    /\ ua_filesize \in 1..UAMaxPkt
    /\ ua_packets = {}
    /\ ua_received = 0
    /\ ack_batch = <<>>
    /\ ua_since_ack = 0
    /\ ua_pc = "recv"
    /\ ua_recvd = [i \in UAAllIds |-> 0]
    /\ ua_acks = [i \in UAAllIds |-> 0]
    /\ ua_n = 0

IdleUA ==
    /\ ua_filesize = 1
    /\ ua_packets = {}
    /\ ua_received = 0
    /\ ack_batch = <<>>
    /\ ua_since_ack = 0
    /\ ua_pc = "recv"
    /\ ua_recvd = [i \in UAAllIds |-> 0]
    /\ ua_acks = [i \in UAAllIds |-> 0]
    /\ ua_n = 0

\* lines 523-540: recvfrom returns a DATA packet of the request; its payload
\* is one byte
UARecvData(packet_id) ==
    /\ ua_pc = "recv"
    /\ ua_n < UAMaxRecv
    /\ packet_id \in UAPacketIds(ua_filesize)
    /\ ua_n' = ua_n + 1
    /\ ua_recvd' = [ua_recvd EXCEPT ![packet_id] = @ + 1]
    /\ IF packet_id - PACKET_ID_BASE \notin ua_packets
       THEN /\ ua_packets' = ua_packets \cup {packet_id - PACKET_ID_BASE}
            /\ ua_received' = ua_received + 1
            /\ ack_batch' = Append(ack_batch, packet_id)
       ELSE UNCHANGED <<ua_packets, ua_received, ack_batch>>
    /\ UNCHANGED <<ua_filesize, ua_since_ack, ua_pc, ua_acks>>
    /\ UNCHANGED notUA

\* lines 523-533: recvfrom returns a datagram that does not parse, belongs
\* to another request or is not DATA
UARecvOther ==
    /\ ua_pc = "recv"
    /\ ua_n < UAMaxRecv
    /\ ua_n' = ua_n + 1
    /\ UNCHANGED <<ua_filesize, ua_packets, ua_received, ack_batch,
                   ua_since_ack, ua_pc, ua_recvd, ua_acks>>
    /\ UNCHANGED notUA

\* lines 542-554 and 518: recvfrom times out after RECV_TIMEOUT_MS, the
\* batch is sent if it is due, and the outer loop tests received < filesize
UATimeout ==
    /\ ua_pc = "recv"
    /\ LET now == UA_later(ua_since_ack, RECV_TIMEOUT_MS)
       IN IF UA_ack_due(ack_batch, now)
          THEN /\ ua_acks' = [i \in UAAllIds |->
                     ua_acks[i] + Cardinality({j \in 1..Len(UA_ack_now(ack_batch)) :
                                                  ack_batch[j] = i})]
               /\ ack_batch' = UA_ack_rest(ack_batch)
               /\ ua_since_ack' = 0
          ELSE /\ ua_since_ack' = now
               /\ UNCHANGED <<ua_acks, ack_batch>>
    /\ ua_pc' = IF ua_received < ua_filesize THEN "recv" ELSE "done"
    /\ UNCHANGED <<ua_filesize, ua_packets, ua_received, ua_recvd, ua_n>>
    /\ UNCHANGED notUA

\* a millisecond passes between two statements
UATick ==
    /\ ua_pc = "recv"
    /\ ua_since_ack <= ACK_INTERVAL_MS
    /\ ua_since_ack' = ua_since_ack + 1
    /\ UNCHANGED <<ua_filesize, ua_packets, ua_received, ack_batch, ua_pc,
                   ua_recvd, ua_acks, ua_n>>
    /\ UNCHANGED notUA

NextUA ==
    \/ \E packet_id \in UAAllIds : UARecvData(packet_id)
    \/ UARecvOther
    \/ UATimeout
    \/ UATick

(***************************************************************************)
(* The upload store: save_partial_file and finalize_file                   *)
(* (lab02/file_handler.py:65-99) and the UDP upload of lab03               *)
(* (lab03/server.py:374-446)                                               *)
(***************************************************************************)
\* the file names a client asks for; they have no extension and only
\* characters that safe_filename keeps
FsNames == {"f", "g"}
\* os.path.splitext(filename) and f"{base}{tag}{ext}": a name of UPLOADS_DIR
\* is the name asked for and the tag put after its base
FsTagged(filename, tag) == [base |-> filename, tag |-> tag]
FsPlain(filename) == FsTagged(filename, "")
FsStored == {FsTagged(n, t) : n \in FsNames, t \in {"", "_new", "_udp"}}
FsPacketIds == 0..(FSMaxLen - 1)
FsPayloads == {Byte(1), Byte(2)}
\* the file sizes an UPLOAD command declares
FsSizes == 1..FSMaxLen
NoSession == [active |-> FALSE, filename |-> "", filesize |-> 0,
              received |-> 0, packets |-> [i \in FsPacketIds |-> <<>>]]

\* file_handler.py:85-91: the path finalize_file moves the partial file to
FS_final_path(store, filename) ==
    IF store[FsPlain(filename)].exists THEN FsTagged(filename, "_new")
    ELSE FsPlain(filename)

\* server.py:425-431: the path _finalize_upload writes to
FS_udp_filepath(store, filename) ==
    IF store[FsPlain(filename)].exists THEN FsTagged(filename, "_udp")
    ELSE FsPlain(filename)

\* server.py:434-436: the packets written in the order of their ids
RECURSIVE FS_assemble(_, _)
FS_assemble(session_packets, i) ==
    IF i \notin FsPacketIds THEN <<>>
    ELSE session_packets[i] \o FS_assemble(session_packets, i + 1)

InitFSVars ==
    /\ \E data \in {<<>>, <<Byte(9)>>} :
          fs_uploads = [n \in FsStored |->
                           IF n = FsPlain("f") /\ data # <<>>
                           THEN File(data) ELSE NoFile]
    /\ fs_partial = [c \in ClientIds, n \in FsNames |-> NoFile]
    /\ fs_session = NoSession
    /\ fs_ops = 0

IdleFS ==
    /\ fs_uploads = [n \in FsStored |-> NoFile]
    /\ fs_partial = [c \in ClientIds, n \in FsNames |-> NoFile]
    /\ fs_session = NoSession
    /\ fs_ops = 0

\* save_partial_file (file_handler.py:65-76): the file is opened with 'ab',
\* so the data is written at its end whatever the offset
FsSavePartial(client_id, filename, data) ==
    /\ fs_ops < FSMaxOps
    /\ Len(fs_partial[client_id, filename].data) < FSMaxLen
    /\ fs_partial' = [fs_partial EXCEPT ![client_id, filename] =
                          File(@.data \o <<data>>)]
    /\ fs_ops' = fs_ops + 1
    /\ UNCHANGED <<fs_uploads, fs_session>>
    /\ UNCHANGED notFS

\* finalize_file (file_handler.py:79-99): shutil.move replaces the file at
\* final_path when there is one
FsFinalizeFile(client_id, filename) ==
    /\ fs_ops < FSMaxOps
    /\ IF fs_partial[client_id, filename].exists
       THEN /\ fs_uploads' = [fs_uploads EXCEPT
                                 ![FS_final_path(fs_uploads, filename)] =
                                     fs_partial[client_id, filename]]
            /\ fs_partial' = [fs_partial EXCEPT ![client_id, filename] = NoFile]
       ELSE UNCHANGED <<fs_uploads, fs_partial>>
    /\ fs_ops' = fs_ops + 1
    /\ UNCHANGED fs_session
    /\ UNCHANGED notFS

\* UDPServerHandler._handle_command, the UPLOAD branch (server.py:374-385)
FsUdpUpload(filename, filesize) ==
    /\ fs_ops < FSMaxOps
    /\ fs_session' = [active |-> TRUE, filename |-> filename,
                      filesize |-> filesize, received |-> 0,
                      packets |-> [i \in FsPacketIds |-> <<>>]]
    /\ fs_ops' = fs_ops + 1
    /\ UNCHANGED <<fs_uploads, fs_partial>>
    /\ UNCHANGED notFS

\* UDPServerHandler._handle_file_data (server.py:401-417) and, with
\* FLAG_END, _finalize_upload (server.py:419-446): open(filepath, "wb")
\* replaces the file at filepath when there is one
FsUdpFileData(packet_id, payload, end) ==
    /\ fs_ops < FSMaxOps
    /\ fs_session.active
    /\ LET session_packets == [fs_session.packets EXCEPT ![packet_id] = <<payload>>]
           received == fs_session.received + Len(<<payload>>)
       IN IF end
          THEN /\ fs_uploads' = [fs_uploads EXCEPT
                                    ![FS_udp_filepath(fs_uploads,
                                                      fs_session.filename)] =
                                        File(FS_assemble(session_packets, 0))]
               /\ fs_session' = NoSession
          ELSE /\ fs_session' = [fs_session EXCEPT !.packets = session_packets,
                                                   !.received = received]
               /\ UNCHANGED fs_uploads
    /\ fs_ops' = fs_ops + 1
    /\ UNCHANGED fs_partial
    /\ UNCHANGED notFS

\* _handle_file_data without a session (server.py:405-408)
FsUdpFileDataNoSession ==
    /\ fs_ops < FSMaxOps
    /\ ~fs_session.active
    /\ fs_ops' = fs_ops + 1
    /\ UNCHANGED <<fs_uploads, fs_partial, fs_session>>
    /\ UNCHANGED notFS

NextFS ==
    \/ \E c \in ClientIds, n \in FsNames, b \in FsPayloads : FsSavePartial(c, n, b)
    \/ \E c \in ClientIds, n \in FsNames : FsFinalizeFile(c, n)
    \/ \E n \in FsNames, size \in FsSizes : FsUdpUpload(n, size)
    \/ \E i \in FsPacketIds, b \in FsPayloads, end \in BOOLEAN :
          FsUdpFileData(i, b, end)
    \/ FsUdpFileDataNoSession

(***************************************************************************)
(* RequestSession._run (lab04/udp_handler.py:119-134)                      *)
(***************************************************************************)
\* flags & FLAG_END (line 130)
CP_has_end(flags) == (flags \div FLAG_END) % 2 = 1

\* the datagrams put in the queue: packets of create_packet as they were
\* sent, cut short, followed by one more byte, and with another first or
\* second byte
RSWhole ==
    {CP_create_packet(request_id, packet_id, 1, flags, CDData(n)).packet :
        request_id \in {1, 65535}, packet_id \in {0, 1000},
        flags \in {FLAG_DATA, FLAG_DATA + FLAG_END, FLAG_ACK},
        n \in 0..RSMaxData}
RSDatagrams ==
    RSWhole
    \cup {CP_slice(w, 0, k) : w \in RSWhole,
                              k \in {0, PACKET_HEADER_SIZE - 1,
                                     PACKET_HEADER_SIZE,
                                     PACKET_HEADER_SIZE + 1}}
    \cup {Append(w, 0) : w \in RSWhole}
    \cup {[w EXCEPT ![i] = (@ + 1) % 256] : w \in RSWhole, i \in {1, 2}}

InitRSVars ==
    /\ rs_packet = <<>>
    /\ rs_parsed = CP_none
    /\ rs_running = TRUE
    /\ rs_handled = 0
    /\ rs_registered = TRUE
    /\ rs_n = 0

IdleRS == InitRSVars

\* one turn of the loop of _run (lines 120-131) with packet taken from the
\* queue; when the loop ends the request is removed from handler.requests
\* (lines 132-134)
RSRun(packet) ==
    /\ rs_running
    /\ rs_n < RSMaxQueue
    /\ rs_n' = rs_n + 1
    /\ rs_packet' = packet
    /\ LET parsed == CP_parse_packet(packet)
       IN /\ rs_parsed' = parsed
          /\ IF parsed.none
             THEN UNCHANGED <<rs_running, rs_handled, rs_registered>>
             ELSE /\ rs_handled' = rs_handled + 1
                  /\ rs_running' = ~CP_has_end(parsed.flags)
                  /\ rs_registered' = ~CP_has_end(parsed.flags)
    /\ UNCHANGED notRS

\* queue.get() returns None (lines 121-123 and 132-134)
RSStop ==
    /\ rs_running
    /\ rs_running' = FALSE
    /\ rs_registered' = FALSE
    /\ UNCHANGED <<rs_packet, rs_parsed, rs_handled, rs_n>>
    /\ UNCHANGED notRS

NextRS ==
    \/ \E packet \in RSDatagrams : RSRun(packet)
    \/ RSStop

(***************************************************************************)
(* UDPClientHandler._send_file_fast (lab04/client.py:415-497)              *)
(***************************************************************************)
USSeqs == UPLOAD_FIRST_SEQ .. (UPLOAD_FIRST_SEQ + USMaxFile - 1)
USNoWindow == [seq \in {} |-> [time |-> 0, resends |-> 0]]

\* line 432: a chunk may be admitted into the window
US_can_admit_le(n, wsize, sent, filesize) == n <= wsize /\ sent < filesize
US_can_admit(n, wsize, sent, filesize) == n < wsize /\ sent < filesize

\* the inner while loop of lines 432-451; the file holds filesize bytes, so
\* f.read(data_size) returns the next data_size bytes or the rest of them;
\* st = [window, next_seq, sent_bytes, xmit]
RECURSIVE US_fill(_, _, _)
US_fill(st, wsize, filesize) ==
    IF ~US_can_admit(Cardinality(DOMAIN st.window), wsize, st.sent_bytes,
                     filesize)
    THEN st
    ELSE LET chunk == Min(USDataSize, filesize - st.sent_bytes)
         IN US_fill(
               [window     |-> [seq \in DOMAIN st.window \cup {st.next_seq} |->
                                   IF seq = st.next_seq
                                   THEN [time |-> 0, resends |-> 0]
                                   ELSE st.window[seq]],
                next_seq   |-> st.next_seq + 1,
                sent_bytes |-> st.sent_bytes + chunk,
                xmit       |-> [st.xmit EXCEPT ![st.next_seq] = @ + 1]],
               wsize, filesize)

\* line 471: the entry has waited longer than packet_timeout
US_timed_out(info) == info.time > PACKET_TIMEOUT
\* lines 471-472: the entry is sent again
US_resend(info) == US_timed_out(info) /\ info.resends < UPLOAD_RESENDS
\* line 431: the test of the outer loop
US_loop(base_seq, nseq, sent_bytes, filesize) ==
    base_seq < nseq \/ sent_bytes < filesize

InitUSVars ==
    /\ us_window_size \in 1..USMaxWin
    /\ us_filesize \in 1..USMaxFile
    /\ us_window = USNoWindow
    /\ us_next_seq = UPLOAD_FIRST_SEQ
    /\ us_base_seq = UPLOAD_FIRST_SEQ
    /\ us_sent_bytes = 0
    /\ us_pc = "fill"
    /\ us_xmit = [seq \in USSeqs |-> 0]
    /\ us_n = 0

IdleUS ==
    /\ us_window_size = 1
    /\ us_filesize = 1
    /\ us_window = USNoWindow
    /\ us_next_seq = UPLOAD_FIRST_SEQ
    /\ us_base_seq = UPLOAD_FIRST_SEQ
    /\ us_sent_bytes = 0
    /\ us_pc = "fill"
    /\ us_xmit = [seq \in USSeqs |-> 0]
    /\ us_n = 0

\* lines 432-451: chunks are read and sent while the window admits them
USFill ==
    /\ us_pc = "fill"
    /\ LET st == US_fill([window |-> us_window, next_seq |-> us_next_seq,
                          sent_bytes |-> us_sent_bytes, xmit |-> us_xmit],
                         us_window_size, us_filesize)
       IN /\ us_window' = st.window
          /\ us_next_seq' = st.next_seq
          /\ us_sent_bytes' = st.sent_bytes
          /\ us_xmit' = st.xmit
    /\ us_pc' = "recv"
    /\ UNCHANGED <<us_window_size, us_filesize, us_base_seq, us_n>>
    /\ UNCHANGED notUS

\* lines 455-465: recvfrom returns an ACK packet of the request
USRecvAck(ack_id) ==
    /\ us_pc = "recv"
    /\ us_n < USMaxRecv
    /\ us_n' = us_n + 1
    /\ IF ack_id \in DOMAIN us_window
       THEN /\ us_window' = [seq \in DOMAIN us_window \ {ack_id} |->
                                us_window[seq]]
            /\ us_base_seq' = IF ack_id >= us_base_seq THEN ack_id + 1
                              ELSE us_base_seq
       ELSE UNCHANGED <<us_window, us_base_seq>>
    /\ UNCHANGED <<us_window_size, us_filesize, us_next_seq, us_sent_bytes,
                   us_pc, us_xmit>>
    /\ UNCHANGED notUS

\* lines 455-461: recvfrom returns a datagram that does not parse, belongs
\* to another request or is not an ACK
USRecvOther ==
    /\ us_pc = "recv"
    /\ us_n < USMaxRecv
    /\ us_n' = us_n + 1
    /\ UNCHANGED <<us_window_size, us_filesize, us_window, us_next_seq,
                   us_base_seq, us_sent_bytes, us_pc, us_xmit>>
    /\ UNCHANGED notUS

\* lines 466-476 and 431: recvfrom times out, the entries that waited longer
\* than packet_timeout and were sent again fewer than three times are sent
\* again, and the outer loop makes its test
USTimeout ==
    /\ us_pc = "recv"
    /\ us_window' = [seq \in DOMAIN us_window |->
                        IF US_resend(us_window[seq])
                        THEN [time |-> 0,
                              resends |-> us_window[seq].resends + 1]
                        ELSE us_window[seq]]
    /\ us_xmit' = [seq \in USSeqs |->
                      IF seq \in DOMAIN us_window /\ US_resend(us_window[seq])
                      THEN us_xmit[seq] + 1 ELSE us_xmit[seq]]
    /\ us_pc' = IF US_loop(us_base_seq, us_next_seq, us_sent_bytes, us_filesize)
                THEN "fill" ELSE "done"
    /\ UNCHANGED <<us_window_size, us_filesize, us_next_seq, us_base_seq,
                   us_sent_bytes, us_n>>
    /\ UNCHANGED notUS

\* a tick passes while recvfrom waits
USTick ==
    /\ us_pc = "recv"
    /\ \E seq \in DOMAIN us_window : ~US_timed_out(us_window[seq])
    /\ us_window' = [seq \in DOMAIN us_window |->
                        IF US_timed_out(us_window[seq]) THEN us_window[seq]
                        ELSE [us_window[seq] EXCEPT !.time = @ + 1]]
    /\ UNCHANGED <<us_window_size, us_filesize, us_next_seq, us_base_seq,
                   us_sent_bytes, us_pc, us_xmit, us_n>>
    /\ UNCHANGED notUS

NextUS ==
    \/ USFill
    \/ USRecvOther
    \/ \E ack_id \in USSeqs : USRecvAck(ack_id)
    \/ USTimeout
    \/ USTick

(***************************************************************************)
(* The UDP download: UDPServerHandler (lab03/server.py:259-546) driven by  *)
(* the select loop (server.py:617-619) and the client's connect,           *)
(* download_file, _wait_for_response and _receive_file_fast                *)
(* (lab04/client.py).  A datagram is the fields the code passes to         *)
(* create_packet: [packet_id, total_packets, flags, payload]; a chunk of   *)
(* the file is one byte.                                                   *)
(***************************************************************************)
UDPacket(packet_id, total_packets, flags, payload) ==
    [packet_id |-> packet_id, total_packets |-> total_packets,
     flags |-> flags, payload |-> payload]
UD_has(flags, flag) == (flags \div flag) % 2 = 1
\* create_ack_packet (udp_handler.py:84-86)
UD_create_ack_packet(packet_id) == UDPacket(packet_id, 0, FLAG_ACK, <<>>)
\* client.py:247-249, the START packet of connect
UDStartPacket == UDPacket(0, 1, FLAG_START + FLAG_END, <<"CLIENT">>)
\* client.py:394-395, the command packet of download_file
UDCommandPacket == UDPacket(0, 1, FLAG_DATA + FLAG_END, <<"DOWNLOAD">>)
\* server.py:310, the reply to START
UDStartReply == UDPacket(0, 1, FLAG_ACK + FLAG_END, <<"OK">>)
\* _send_response (server.py:523-546) of a text that fits one packet
UD_send_response(text) == UDPacket(0, 1, FLAG_DATA + FLAG_END, <<text>>)
\* server.py:489-491 and 504-509: the packet of the chunk read when `sent`
\* bytes have been sent
UD_chunk_packet(packet_seq, sent, filesize) ==
    UDPacket(packet_seq, filesize,
             IF sent + 1 >= filesize THEN FLAG_DATA + FLAG_END ELSE FLAG_DATA,
             <<"x">>)
\* a packet built in answer to the packet with packet_id `of`
UDBuilt(packet, of) == [packet |-> packet, of |-> of]
UDInSelect == [at |-> "select", packet_seq |-> 0, sent |-> 0]
\* the datagrams of a download of up to UDMaxPkt chunks
UDDatagrams ==
    {UDStartPacket, UDCommandPacket, UDStartReply, UD_send_response("FILESIZE")}
    \cup {UD_create_ack_packet(id) :
             id \in {0} \cup PACKET_ID_BASE..(PACKET_ID_BASE + UDMaxPkt - 1)}
    \cup {UD_chunk_packet(PACKET_ID_BASE + sent, sent, filesize) :
             sent \in 0..(UDMaxPkt - 1), filesize \in 1..UDMaxPkt}

InitUDVars ==
    /\ ud_filesize \in 1..UDMaxPkt
    /\ ud_clients = FALSE
    /\ ud_srv = UDInSelect
    /\ ud_in = {}
    /\ ud_out = {}
    /\ ud_built = {}
    /\ ud_lost = 0
    /\ ud_cl = [pc |-> "new", attempt |-> 0, packets |-> {}, received |-> 0,
                ack_batch |-> <<>>]

IdleUD ==
    /\ ud_filesize = 0
    /\ ud_clients = FALSE
    /\ ud_srv = UDInSelect
    /\ ud_in = {}
    /\ ud_out = {}
    /\ ud_built = {}
    /\ ud_lost = 0
    /\ ud_cl = [pc |-> "idle", attempt |-> 0, packets |-> {}, received |-> 0,
                ack_batch |-> <<>>]

\* connect (client.py:246-250): the START packet is sent
UDConnect ==
    /\ ud_cl.pc = "new"
    /\ ud_in' = ud_in \cup {UDStartPacket}
    /\ ud_built' = ud_built \cup {UDBuilt(UDStartPacket, -1)}
    /\ ud_cl' = [ud_cl EXCEPT !.pc = "connect"]
    /\ UNCHANGED <<ud_filesize, ud_clients, ud_srv, ud_out, ud_lost>>
    /\ UNCHANGED notUD

\* connect (client.py:252-261): one pass of the loop that receives packet
UDConnectRecv(packet) ==
    /\ ud_cl.pc = "connect"
    /\ packet \in ud_out
    /\ ud_out' = ud_out \ {packet}
    /\ ud_cl' = IF UD_has(packet.flags, FLAG_ACK) /\ packet.payload = <<"OK">>
                THEN [ud_cl EXCEPT !.pc = "connected"]
                ELSE IF ud_cl.attempt >= 2
                THEN [ud_cl EXCEPT !.pc = "failed"]
                ELSE [ud_cl EXCEPT !.attempt = @ + 1]
    /\ UNCHANGED <<ud_filesize, ud_clients, ud_srv, ud_in, ud_built, ud_lost>>
    /\ UNCHANGED notUD

\* connect (client.py:262-265): one pass of the loop that times out
UDConnectTimeout ==
    /\ ud_cl.pc = "connect"
    /\ ud_in' = IF ud_cl.attempt < 2 THEN ud_in \cup {UDStartPacket} ELSE ud_in
    /\ ud_cl' = IF ud_cl.attempt >= 2
                THEN [ud_cl EXCEPT !.pc = "failed"]
                ELSE [ud_cl EXCEPT !.attempt = @ + 1]
    /\ UNCHANGED <<ud_filesize, ud_clients, ud_srv, ud_out, ud_built, ud_lost>>
    /\ UNCHANGED notUD

\* download_file (client.py:393-396): the command packet is sent
UDDownload ==
    /\ ud_cl.pc = "connected"
    /\ ud_in' = ud_in \cup {UDCommandPacket}
    /\ ud_built' = ud_built \cup {UDBuilt(UDCommandPacket, -1)}
    /\ ud_cl' = [ud_cl EXCEPT !.pc = "wait"]
    /\ UNCHANGED <<ud_filesize, ud_clients, ud_srv, ud_out, ud_lost>>
    /\ UNCHANGED notUD

\* _wait_for_response (client.py:609-630) receives packet, and
\* download_file (client.py:398-410) goes on when it returns
UDWaitRecv(packet) ==
    /\ ud_cl.pc = "wait"
    /\ packet \in ud_out
    /\ ud_out' = ud_out \ {packet}
    /\ LET data == UD_has(packet.flags, FLAG_DATA)
           ack  == UD_create_ack_packet(packet.packet_id)
       IN /\ ud_in' = IF data THEN ud_in \cup {ack} ELSE ud_in
          /\ ud_built' = IF data
                         THEN ud_built \cup {UDBuilt(ack, packet.packet_id)}
                         ELSE ud_built
          /\ ud_cl' = IF ~UD_has(packet.flags, FLAG_END) THEN ud_cl
                      ELSE IF data /\ packet.packet_id < packet.total_packets
                              /\ packet.payload = <<"FILESIZE">>
                      THEN [ud_cl EXCEPT !.pc = "recv"]
                      ELSE [ud_cl EXCEPT !.pc = "failed"]
    /\ UNCHANGED <<ud_filesize, ud_clients, ud_srv, ud_lost>>
    /\ UNCHANGED notUD

\* _wait_for_response runs out of time (client.py:608 and 634) and
\* download_file returns (client.py:399-401)
UDWaitTimeout ==
    /\ ud_cl.pc = "wait"
    /\ ud_cl' = [ud_cl EXCEPT !.pc = "failed"]
    /\ UNCHANGED <<ud_filesize, ud_clients, ud_srv, ud_in, ud_out, ud_built,
                   ud_lost>>
    /\ UNCHANGED notUD

\* _receive_file_fast (client.py:521-540): recvfrom returns packet
UDRecv(packet) ==
    /\ ud_cl.pc = "recv"
    /\ packet \in ud_out
    /\ ud_out' = ud_out \ {packet}
    /\ ud_cl' = IF UD_has(packet.flags, FLAG_DATA)
                   /\ packet.packet_id \notin ud_cl.packets
                THEN [ud_cl EXCEPT !.packets = @ \cup {packet.packet_id},
                                   !.received = @ + Len(packet.payload),
                                   !.ack_batch = Append(@, packet.packet_id)]
                ELSE ud_cl
    /\ UNCHANGED <<ud_filesize, ud_clients, ud_srv, ud_in, ud_built, ud_lost>>
    /\ UNCHANGED notUD

\* _receive_file_fast (client.py:542-555 and 518): recvfrom times out, the
\* batch of ACKs is sent when it is due, and the loop ends when received
\* has reached filesize
UDRecvTimeout(due) ==
    /\ ud_cl.pc = "recv"
    /\ LET flush == due /\ ud_cl.ack_batch # <<>>
           acks  == {UD_create_ack_packet(ud_cl.ack_batch[i]) :
                        i \in 1..Len(ud_cl.ack_batch)}
       IN /\ ud_in' = IF flush THEN ud_in \cup acks ELSE ud_in
          /\ ud_built' = IF flush
                         THEN ud_built \cup
                              {UDBuilt(a, a.packet_id) : a \in acks}
                         ELSE ud_built
          /\ ud_cl' = [ud_cl EXCEPT
                          !.ack_batch = IF flush THEN <<>> ELSE @,
                          !.pc = IF ud_cl.received >= ud_filesize
                                 THEN "done" ELSE @]
    /\ UNCHANGED <<ud_filesize, ud_clients, ud_srv, ud_out, ud_lost>>
    /\ UNCHANGED notUD

\* handle_packet (server.py:267-290) with the handlers it calls:
\* _handle_start (292-315), _handle_data (332-358) and, for the command
\* DOWNLOAD of a stored file, _handle_download up to its send loop
\* (448-496)
UDHandlePacket(packet) ==
    /\ ud_srv.at = "select"
    /\ packet \in ud_in
    /\ ud_in' = ud_in \ {packet}
    /\ LET start == UD_has(packet.flags, FLAG_START)
           data  == UD_has(packet.flags, FLAG_DATA)
           ack   == UD_create_ack_packet(packet.packet_id)
           acks  == IF start THEN {} ELSE {ack}
           command == data /\ packet.packet_id = 0
           reply == IF start THEN {UDStartReply}
                    ELSE IF command THEN {UD_send_response("FILESIZE")}
                    ELSE {}
       IN /\ ud_out' = ud_out \cup acks \cup reply
          /\ ud_built' = ud_built
                \cup {UDBuilt(a, packet.packet_id) : a \in acks}
                \cup {UDBuilt(r, IF start THEN packet.packet_id ELSE -1) :
                         r \in reply}
          /\ ud_clients' = (ud_clients \/ start \/ data)
          /\ ud_srv' = IF command
                       THEN [at |-> "send", packet_seq |-> PACKET_ID_BASE,
                             sent |-> 0]
                       ELSE ud_srv
    /\ UNCHANGED <<ud_filesize, ud_lost, ud_cl>>
    /\ UNCHANGED notUD

\* _handle_download (server.py:497-515): one pass of the send loop that
\* reads a chunk
UDSendChunk ==
    /\ ud_srv.at = "send"
    /\ ud_srv.sent < ud_filesize
    /\ LET packet == UD_chunk_packet(ud_srv.packet_seq, ud_srv.sent,
                                     ud_filesize)
       IN /\ ud_out' = ud_out \cup {packet}
          /\ ud_built' = ud_built \cup {UDBuilt(packet, -1)}
    /\ ud_srv' = [ud_srv EXCEPT !.packet_seq = @ + 1, !.sent = @ + 1]
    /\ UNCHANGED <<ud_filesize, ud_clients, ud_in, ud_lost, ud_cl>>
    /\ UNCHANGED notUD

\* _handle_download (server.py:498-500 and 517): the read returns nothing,
\* the loop ends and handle_packet returns to the select loop
UDSendDone ==
    /\ ud_srv.at = "send"
    /\ ud_srv.sent >= ud_filesize
    /\ ud_srv' = UDInSelect
    /\ UNCHANGED <<ud_filesize, ud_clients, ud_in, ud_out, ud_built, ud_lost,
                   ud_cl>>
    /\ UNCHANGED notUD

\* the network loses a datagram sent by the server
UDLose(packet) ==
    /\ ud_lost < UDMaxLost
    /\ packet \in ud_out
    /\ ud_out' = ud_out \ {packet}
    /\ ud_lost' = ud_lost + 1
    /\ UNCHANGED <<ud_filesize, ud_clients, ud_srv, ud_in, ud_built, ud_cl>>
    /\ UNCHANGED notUD

NextUD ==
    \/ UDConnect
    \/ \E packet \in UDDatagrams : UDConnectRecv(packet)
    \/ UDConnectTimeout
    \/ UDDownload
    \/ \E packet \in UDDatagrams : UDWaitRecv(packet)
    \/ UDWaitTimeout
    \/ \E packet \in UDDatagrams : UDRecv(packet)
    \/ \E due \in BOOLEAN : UDRecvTimeout(due)
    \/ \E packet \in UDDatagrams : UDHandlePacket(packet)
    \/ UDSendChunk
    \/ UDSendDone
    \/ \E packet \in UDDatagrams : UDLose(packet)

(***************************************************************************)
(* RequestSession (lab04/udp_handler.py:107-134): the threads of two       *)
(* sessions created one after the other for the same request id, and the   *)
(* entry of that id in handler.requests                                    *)
(***************************************************************************)
RQSessions == {1, 2}
\* the None put on a queue to end its thread
RQNone == <<-1>>
\* what is put on a queue: a DATA packet, a DATA packet with END, a
\* datagram cut inside its header, and None
RQDataPacket == CP_create_packet(1, 0, 1, FLAG_DATA, CDData(1)).packet
RQEndPacket == CP_create_packet(1, 1, 1, FLAG_DATA + FLAG_END, CDData(1)).packet
RQItems ==
    {RQDataPacket, RQEndPacket,
     CP_slice(RQDataPacket, 0, PACKET_HEADER_SIZE - 1), RQNone}

\* __init__ (lines 110-117) of the first session, registered by its creator
InitRQVars ==
    /\ rq_requests = 1
    /\ rq_queue = [i \in RQSessions |-> <<>>]
    /\ rq_pc = [i \in RQSessions |-> IF i = 1 THEN "get" ELSE "none"]
    /\ rq_handled = [i \in RQSessions |-> <<>>]
    /\ rq_put = [i \in RQSessions |-> <<>>]

IdleRQ ==
    /\ rq_requests = 0
    /\ rq_queue = [i \in RQSessions |-> <<>>]
    /\ rq_pc = [i \in RQSessions |-> "none"]
    /\ rq_handled = [i \in RQSessions |-> <<>>]
    /\ rq_put = [i \in RQSessions |-> <<>>]

\* the dispatcher puts item on the queue of the session registered under
\* the request id
RQPut(i, item) ==
    /\ rq_requests = i
    /\ Len(rq_put[1]) + Len(rq_put[2]) < RQMaxPut
    /\ rq_queue' = [rq_queue EXCEPT ![i] = Append(@, item)]
    /\ rq_put' = [rq_put EXCEPT ![i] = Append(@, item)]
    /\ UNCHANGED <<rq_requests, rq_pc, rq_handled>>
    /\ UNCHANGED notRQ

\* the dispatcher creates the second session (lines 110-117) and registers
\* it under the request id
RQRegister ==
    /\ rq_pc[2] = "none"
    /\ rq_pc' = [rq_pc EXCEPT ![2] = "get"]
    /\ rq_requests' = 2
    /\ UNCHANGED <<rq_queue, rq_handled, rq_put>>
    /\ UNCHANGED notRQ

\* _run, one turn of the loop (lines 120-131): queue.get() returns the
\* oldest item of the queue
RQRun(i) ==
    /\ rq_pc[i] = "get"
    /\ rq_queue[i] # <<>>
    /\ rq_queue' = [rq_queue EXCEPT ![i] = Tail(@)]
    /\ LET packet == Head(rq_queue[i])
           parsed == IF packet = RQNone THEN CP_none
                     ELSE CP_parse_packet(packet)
       IN IF packet = RQNone
          THEN /\ rq_pc' = [rq_pc EXCEPT ![i] = "cleanup"]
               /\ UNCHANGED rq_handled
          ELSE IF parsed.none
          THEN UNCHANGED <<rq_pc, rq_handled>>
          ELSE /\ rq_handled' = [rq_handled EXCEPT ![i] = Append(@, packet)]
               /\ rq_pc' = IF CP_has_end(parsed.flags)
                           THEN [rq_pc EXCEPT ![i] = "cleanup"]
                           ELSE rq_pc
    /\ UNCHANGED <<rq_requests, rq_put>>
    /\ UNCHANGED notRQ

\* _run after the loop (lines 132-134), under handler._lock
RQCleanup(i) ==
    /\ rq_pc[i] = "cleanup"
    /\ rq_pc' = [rq_pc EXCEPT ![i] = "dead"]
    /\ rq_requests' = 0
    /\ UNCHANGED <<rq_queue, rq_handled, rq_put>>
    /\ UNCHANGED notRQ

NextRQ ==
    \/ \E i \in RQSessions, item \in RQItems : RQPut(i, item)
    \/ RQRegister
    \/ \E i \in RQSessions : RQRun(i)
    \/ \E i \in RQSessions : RQCleanup(i)

(***************************************************************************)
(* UDPClientHandler._get_request_id (lab04/client.py:225-234)              *)
(***************************************************************************)
\* lines 231-233 without the test for 0
GI_advance_mask_only(n) == (n + 1) % (REQUEST_ID_MAX + 1)
\* lines 231-233: (n + 1) & REQUEST_ID_MAX, and 1 in place of 0
GI_advance(n) ==
    IF (n + 1) % (REQUEST_ID_MAX + 1) = 0 THEN 1
    ELSE (n + 1) % (REQUEST_ID_MAX + 1)

\* __init__ (client.py:225-226)
InitGIVars ==
    /\ next_request_id = 1
    /\ gi_rid = 0
    /\ gi_wraps = 0

IdleGI == InitGIVars

\* one call of _get_request_id (lines 228-234)
GIGetRequestId ==
    /\ gi_wraps <= GIMaxWraps
    /\ gi_rid' = next_request_id
    /\ next_request_id' = GI_advance(next_request_id)
    /\ gi_wraps' = IF next_request_id = REQUEST_ID_MAX THEN gi_wraps + 1
                   ELSE gi_wraps
    /\ UNCHANGED notGI

NextGI == GIGetRequestId

(***************************************************************************)
(* The receive loops of the UDP client (lab04/client.py): _wait_for_response*)
(* (602-634), _send_file_fast (453-467) and _receive_file_fast (521-540),  *)
(* each taking datagrams that parse_packet accepts:                        *)
(* [rid, packet_id, flags, size], size being len(payload)                  *)
(***************************************************************************)
IXDatagram(rid, packet_id, flags, size) ==
    [rid |-> rid, packet_id |-> packet_id, flags |-> flags, size |-> size]
IXNoDatagram == IXDatagram(0, 0, 0, 0)
IXRequestIds == {1, 2, REQUEST_ID_MAX}
IXDatagrams ==
    {IXDatagram(rid, packet_id, flags, IF flags = FLAG_ACK THEN 0 ELSE 1) :
        rid \in IXRequestIds,
        packet_id \in {0, UPLOAD_FIRST_SEQ, UPLOAD_FIRST_SEQ + 1},
        flags \in {FLAG_DATA, FLAG_DATA + FLAG_END, FLAG_ACK}}

\* the test of lines 459 and 527 left out
IX_foreign_never(rid, request_id) == FALSE
\* lines 459 and 527: `rid != request_id`
IX_foreign(rid, request_id) == rid # request_id
\* line 615: `request_id and rid != request_id`; every caller passes an id
\* that _get_request_id returned (client.py:346, 372, 398)
IX_wait_foreign(rid, request_id) == request_id # 0 /\ rid # request_id

\* the exchange in progress: _wait_for_response after a command was sent
\* (client.py:346, 372, 398), _send_file_fast with two packets in its window
\* (client.py:432-451), _receive_file_fast at its start (501-516)
InitIXVars ==
    /\ ix_fn \in {"wait", "send", "recv"}
    /\ ix_request_id \in IXRequestIds \ {2}
    /\ ix_packets = {}
    /\ ix_received = 0
    /\ ix_ack_batch = <<>>
    /\ ix_acks = {}
    /\ ix_window = IF ix_fn = "send"
                   THEN {UPLOAD_FIRST_SEQ, UPLOAD_FIRST_SEQ + 1} ELSE {}
    /\ ix_base_seq = IF ix_fn = "send" THEN UPLOAD_FIRST_SEQ ELSE 0
    /\ ix_returned = FALSE
    /\ ix_last = IXNoDatagram
    /\ ix_n = 0

IdleIX ==
    /\ ix_fn = "idle"
    /\ ix_request_id = 0
    /\ ix_packets = {}
    /\ ix_received = 0
    /\ ix_ack_batch = <<>>
    /\ ix_acks = {}
    /\ ix_window = {}
    /\ ix_base_seq = 0
    /\ ix_returned = FALSE
    /\ ix_last = IXNoDatagram
    /\ ix_n = 0

\* _wait_for_response (lines 610-630) takes datagram d
IXWaitRecv(d) ==
    /\ ix_fn = "wait" /\ ~ix_returned
    /\ ix_n < IXMaxRecv
    /\ ix_n' = ix_n + 1
    /\ ix_last' = d
    /\ IF IX_wait_foreign(d.rid, ix_request_id)
       THEN UNCHANGED <<ix_packets, ix_acks, ix_returned>>
       ELSE /\ IF UD_has(d.flags, FLAG_DATA)
               THEN /\ ix_packets' = ix_packets \cup {d.packet_id}
                    /\ ix_acks' = ix_acks \cup {<<d.rid, d.packet_id>>}
               ELSE UNCHANGED <<ix_packets, ix_acks>>
            /\ ix_returned' = UD_has(d.flags, FLAG_END)
    /\ UNCHANGED <<ix_fn, ix_request_id, ix_received, ix_ack_batch, ix_window,
                   ix_base_seq>>
    /\ UNCHANGED notIX

\* _send_file_fast (lines 455-465) takes datagram d
IXSendRecv(d) ==
    /\ ix_fn = "send"
    /\ ix_n < IXMaxRecv
    /\ ix_n' = ix_n + 1
    /\ ix_last' = d
    /\ IF ~IX_foreign(d.rid, ix_request_id) /\ UD_has(d.flags, FLAG_ACK)
          /\ d.packet_id \in ix_window
       THEN /\ ix_window' = ix_window \ {d.packet_id}
            /\ ix_base_seq' = IF d.packet_id >= ix_base_seq
                              THEN d.packet_id + 1 ELSE ix_base_seq
       ELSE UNCHANGED <<ix_window, ix_base_seq>>
    /\ UNCHANGED <<ix_fn, ix_request_id, ix_packets, ix_received,
                   ix_ack_batch, ix_acks, ix_returned>>
    /\ UNCHANGED notIX

\* _receive_file_fast (lines 523-540) takes datagram d
IXFileRecv(d) ==
    /\ ix_fn = "recv"
    /\ ix_n < IXMaxRecv
    /\ ix_n' = ix_n + 1
    /\ ix_last' = d
    /\ IF ~IX_foreign(d.rid, ix_request_id) /\ UD_has(d.flags, FLAG_DATA)
          /\ d.packet_id - PACKET_ID_BASE \notin ix_packets
       THEN /\ ix_packets' = ix_packets \cup {d.packet_id - PACKET_ID_BASE}
            /\ ix_received' = ix_received + d.size
            /\ ix_ack_batch' = Append(ix_ack_batch, d.packet_id)
       ELSE UNCHANGED <<ix_packets, ix_received, ix_ack_batch>>
    /\ UNCHANGED <<ix_fn, ix_request_id, ix_acks, ix_window, ix_base_seq,
                   ix_returned>>
    /\ UNCHANGED notIX

\* _receive_file_fast (lines 545-554): the batch of ACKs is sent
IXFileAcks ==
    /\ ix_fn = "recv"
    /\ ix_ack_batch # <<>>
    /\ ix_acks' = ix_acks \cup
                  {<<ix_request_id, ix_ack_batch[i]>> :
                      i \in 1..Min(Len(ix_ack_batch), ACK_SEND_MAX)}
    /\ ix_ack_batch' = Drop(ix_ack_batch, Min(Len(ix_ack_batch), ACK_SEND_MAX))
    /\ UNCHANGED <<ix_fn, ix_request_id, ix_packets, ix_received, ix_window,
                   ix_base_seq, ix_returned, ix_last, ix_n>>
    /\ UNCHANGED notIX

NextIX ==
    \/ \E d \in IXDatagrams : IXWaitRecv(d)
    \/ \E d \in IXDatagrams : IXSendRecv(d)
    \/ \E d \in IXDatagrams : IXFileRecv(d)
    \/ IXFileAcks

InitTCPVars ==
    /\ \/ server = "lab02" /\ sock_attrs = TRUE
       \/ server = "lab03" /\ sock_attrs \in BOOLEAN
    /\ th = [s \in Sessions |-> L2NoThread]
    /\ listen_q = {}
    /\ tcp_clients = {}
    /\ sock_closed = {}
    /\ sock_buffer = [s \in Sessions |-> <<>>]
    /\ upload_state = [s \in Sessions |-> NoUpload]
    /\ download_state = [s \in Sessions |-> NoDownload]
    /\ \E n \in 0..MaxFile :
          uploads \in {[f \in StoredNames |-> NoFile],
                       [f \in StoredNames |->
                           IF f \in FileNames THEN File(FileBytes(n))
                           ELSE NoFile]}
    /\ srv_pc = InSelect
    /\ srv_cmds = [s \in Sessions |-> <<>>]
    /\ srv_file_sent = [s \in Sessions |-> <<>>]
    /\ srv_offset_str = [s \in Sessions |-> <<>>]
    /\ c2s = [s \in Sessions |-> <<>>]
    /\ s2c = [s \in Sessions |-> <<>>]
    /\ c_eof = [s \in Sessions |-> FALSE]
    /\ cl_pc = [s \in Sessions |-> "init"]
    /\ cl_connected = [s \in Sessions |-> FALSE]
    /\ cl_file \in {NoFile} \cup {File(FileBytes(p)) : p \in 0..(MaxFile + 1)}
    /\ cl_dl = [s \in Sessions |-> NoDl]
    /\ cl_sent_offset = [s \in Sessions |-> <<>>]
    /\ cl_cmds = 0

IdleTCP ==
    /\ server = "lab03"
    /\ sock_attrs = FALSE
    /\ th = [s \in Sessions |-> L2NoThread]
    /\ listen_q = {}
    /\ tcp_clients = {}
    /\ sock_closed = {}
    /\ sock_buffer = [s \in Sessions |-> <<>>]
    /\ upload_state = [s \in Sessions |-> NoUpload]
    /\ download_state = [s \in Sessions |-> NoDownload]
    /\ uploads = [f \in StoredNames |-> NoFile]
    /\ srv_pc = InSelect
    /\ srv_cmds = [s \in Sessions |-> <<>>]
    /\ srv_file_sent = [s \in Sessions |-> <<>>]
    /\ srv_offset_str = [s \in Sessions |-> <<>>]
    /\ c2s = [s \in Sessions |-> <<>>]
    /\ s2c = [s \in Sessions |-> <<>>]
    /\ c_eof = [s \in Sessions |-> FALSE]
    /\ cl_pc = [s \in Sessions |-> "init"]
    /\ cl_connected = [s \in Sessions |-> FALSE]
    /\ cl_file = NoFile
    /\ cl_dl = [s \in Sessions |-> NoDl]
    /\ cl_sent_offset = [s \in Sessions |-> <<>>]
    /\ cl_cmds = 0


EmptyFn == [k \in {} |-> None]
NoCall == [seq_num |-> -1, data |-> Payload(-1, "a")]

InitRWVars ==
    /\ rw_window_size \in 1..MaxWin
    /\ expected_seq = 0
    /\ buffer = EmptyFn
    /\ received_packets = {}
    /\ rw_call = NoCall
    /\ rw_ret = RetNone
    /\ rw_delivered = <<>>
    /\ rw_passed = [s \in SeqNums |-> 0]
    /\ rw_sent = {}
    /\ rw_dropped = {}

IdleRW ==
    /\ rw_window_size = 0
    /\ expected_seq = 0
    /\ buffer = EmptyFn
    /\ received_packets = {}
    /\ rw_call = NoCall
    /\ rw_ret = RetNone
    /\ rw_delivered = <<>>
    /\ rw_passed = [s \in SeqNums |-> 0]
    /\ rw_sent = {}
    /\ rw_dropped = {}

RWCalls == LET RECURSIVE Sum(_)
               Sum(S) == IF S = {} THEN 0
                         ELSE LET s == CHOOSE x \in S : TRUE
                              IN rw_passed[s] + Sum(S \ {s})
           IN Sum(SeqNums)

\* one call recv_window.add_packet(seq_num, total, data)
RWAddPacket(seq_num, ver) ==
    /\ RWCalls < MaxCalls
    /\ LET r == RW_add_packet(expected_seq, buffer, received_packets,
                              rw_window_size, seq_num, Payload(seq_num, ver))
       IN /\ expected_seq' = r.expected_seq
          /\ buffer' = r.buffer
          /\ received_packets' = r.received_packets
          /\ rw_ret' = r.ret
          /\ rw_delivered' = rw_delivered \o r.ret.data
          /\ rw_dropped' = IF r.far THEN rw_dropped \cup {seq_num}
                           ELSE rw_dropped
    /\ rw_call' = [seq_num |-> seq_num, data |-> Payload(seq_num, ver)]
    /\ rw_passed' = [rw_passed EXCEPT ![seq_num] = @ + 1]
    /\ rw_sent' = rw_sent \cup {Payload(seq_num, ver)}
    /\ UNCHANGED rw_window_size
    /\ UNCHANGED notRW

NextRW == \E seq_num \in SeqNums, ver \in Versions : RWAddPacket(seq_num, ver)

InitRW == InitRWVars /\ IdleSW /\ IdleCD /\ IdleTCP /\ IdleUA /\ IdleFS /\ IdleRS /\ IdleUS /\ IdleUD /\ IdleRQ /\ IdleGI /\ IdleIX

SpecRW == InitRW /\ [][NextRW]_vars

RWDeliveredSet == {rw_delivered[i] : i \in 1..Len(rw_delivered)}

\* C1: over any sequence of add_packet calls (any order, duplicates) the
\* payloads handed to the caller are those of the sequence numbers 0,1,2,...
\* in this order, without a gap and without a number handed over twice.
C1_InOrderOnce ==
    \A i \in 1..Len(rw_delivered) : rw_delivered[i].seq = i - 1

\* witness of C1: at least three payloads were delivered, one of them from the
\* buffer, after some sequence number had been passed more than once
C1_Witness ==
    /\ Len(rw_delivered) >= 3
    /\ rw_ret.kind = "list"
    /\ \E s \in SeqNums : rw_passed[s] >= 2

\* every number of 0..N-1 was passed exactly once and no other number was
RWAllOnce(N) == \A s \in SeqNums : rw_passed[s] = (IF s < N THEN 1 ELSE 0)

\* C2 as stated: once each of 0..N-1 was passed exactly once, in any order
\* and also for N larger than window_size, the payloads delivered are exactly
\* the payloads sent, in strictly increasing order.
C2_AllDelivered ==
    \A N \in 1..(MaxSeq + 1) :
        RWAllOnce(N) =>
            /\ RWDeliveredSet = rw_sent
            /\ \A i \in 1..Len(rw_delivered) : rw_delivered[i].seq = i - 1

\* C2 amended: once each of 0..N-1 was passed exactly once, delivery is in
\* strictly increasing order and the payloads delivered are exactly those
\* sent under a number below every number that arrived at or beyond
\* expected_seq + window_size (and was dropped); for N <= window_size no
\* packet is dropped and everything sent is delivered.
C2_DeliveredUpToDrop ==
    \A N \in 1..(MaxSeq + 1) :
        RWAllOnce(N) =>
            /\ RWDeliveredSet =
                   {p \in rw_sent : \A d \in rw_dropped : p.seq < d}
            /\ \A i, j \in 1..Len(rw_delivered) :
                   i < j => rw_delivered[i].seq < rw_delivered[j].seq
            /\ N <= rw_window_size => RWDeliveredSet = rw_sent

\* witness of C2: more numbers than window_size were passed once each, out of
\* order, and all of them were delivered
C2_Witness ==
    /\ \E N \in 1..(MaxSeq + 1) : RWAllOnce(N) /\ N > rw_window_size
    /\ RWDeliveredSet = rw_sent
    /\ rw_ret.kind = "list"

\* C3: add_packet with a number already delivered or already buffered returns
\* (False, None) and changes none of expected_seq, buffer, received_packets.
C3_DuplicateNoEffect ==
    [][ (/\ rw_passed' # rw_passed
         /\ rw_call'.seq_num \in received_packets \cup DOMAIN buffer)
        => (/\ rw_ret' = RetNone
            /\ expected_seq' = expected_seq
            /\ buffer' = buffer
            /\ received_packets' = received_packets) ]_vars

\* witness of C3: the last call repeated a buffered number with other bytes
\* than the ones buffered, after some payloads had been delivered
C3_Witness ==
    /\ rw_call.seq_num \in DOMAIN buffer
    /\ buffer[rw_call.seq_num] # rw_call.data
    /\ rw_passed[rw_call.seq_num] >= 2
    /\ received_packets # {}

NextSW ==
    \/ \E seq_num \in SWSeqNums, cb \in BOOLEAN : SWAddPacket(seq_num, cb)
    \/ \E seq_num \in SWSeqNums : SWAckReceived(seq_num)
    \/ SWGetResendPackets
    \/ SWClose
    \/ SWTick

InitSW == InitSWVars /\ IdleRW /\ IdleCD /\ IdleTCP /\ IdleUA /\ IdleFS /\ IdleRS /\ IdleUS /\ IdleUD /\ IdleRQ /\ IdleGI /\ IdleIX

SpecSW == InitSW /\ [][NextSW]_vars


\* C4: in every state reached by add_packet (after can_send() returned True),
\* ack_received and get_resend_packets the window holds at most window_size
\* unacknowledged entries.
C4_WindowBound == Len(packets) <= sw_window_size

\* C5: a packet that is not acknowledged is returned by get_resend_packets at
\* most MAX_RESENDS times; a call that finds it timed out after that returns
\* it no more, removes it from the window and invokes its callback with False.
C5_RetryCeiling ==
    /\ \A s \in SWSeqNums : sw_resent[s] <= MAX_RESENDS
    /\ \A s \in SW_keys(packets) :
          (SW_timed_out(SW_get(packets, s)) /\ sw_resent[s] = MAX_RESENDS)
          => LET r == SW_get_resend_packets(packets)
             IN /\ s \notin SW_keys(r.packets)
                /\ \A i \in 1..Len(r.resend_list) : r.resend_list[i][1] # s
                /\ SW_get(packets, s).callback =>
                       \E i \in 1..Len(r.failed) : r.failed[i] = s

\* witness of C5: a packet given with a callback was returned MAX_RESENDS
\* times, timed out once more and was then removed by get_resend_packets,
\* its callback invoked with False
C5_Witness ==
    \E s \in SWSeqNums :
       /\ sw_resent[s] = MAX_RESENDS
       /\ s \notin SW_keys(packets)
       /\ sw_callbacks[s] = <<FALSE>>

NextCodec ==
    \/ \E request_id \in CDRequestIds, packet_id \in CDPacketIds,
          total_packets \in CDTotals, flags \in CDFlags, n \in CDLengths :
          CDCreate(request_id, packet_id, total_packets, flags, n)
    \/ CDDeliver
    \/ \E k \in {0, PACKET_HEADER_SIZE - 1, PACKET_HEADER_SIZE,
                 PACKET_HEADER_SIZE + 1} : CDDeliverTruncated(k)
    \/ CDDeliverForeign
    \/ CDParse

InitCodec == InitCDVars /\ IdleRW /\ IdleSW /\ IdleTCP /\ IdleUA /\ IdleFS /\ IdleRS /\ IdleUS /\ IdleUD /\ IdleRQ /\ IdleGI /\ IdleIX

SpecCodec == InitCodec /\ [][NextCodec]_vars

\* C6: parse_packet applied to what create_packet returned gives back the
\* request id, packet id, total count, flags and payload bytes that were
\* passed to create_packet, for payloads of length 0, 1 and DATA_SIZE_MAX.
C6_RoundTrip ==
    (/\ cd_pc = "parsed"
     /\ cd_wire = CP_create_packet(cd_args.request_id, cd_args.packet_id,
                                   cd_args.total_packets, cd_args.flags,
                                   cd_args.data).packet
     /\ Len(cd_args.data) \in {0, 1, DATA_SIZE_MAX})
    => /\ ~cd_parsed.none
       /\ cd_parsed.request_id = cd_args.request_id
       /\ cd_parsed.packet_id = cd_args.packet_id
       /\ cd_parsed.total_packets = cd_args.total_packets
       /\ cd_parsed.flags = cd_args.flags
       /\ cd_parsed.data = cd_args.data

\* witness of C6: a packet with the longest payload and the largest request
\* id was built, delivered whole and parsed
C6_Witness ==
    /\ cd_pc = "parsed"
    /\ Len(cd_args.data) = DATA_SIZE_MAX
    /\ Len(cd_wire) = PACKET_HEADER_SIZE + DATA_SIZE_MAX
    /\ cd_args.request_id = 65535
    /\ cd_parsed.data = cd_args.data

InitUA == InitUAVars /\ IdleRW /\ IdleSW /\ IdleCD /\ IdleTCP /\ IdleFS /\ IdleRS /\ IdleUS /\ IdleUD /\ IdleRQ /\ IdleGI /\ IdleIX

SpecAck == InitUA /\ [][NextUA]_vars

\* C14: every received DATA packet of a download is acknowledged: each DATA
\* packet received, the duplicates of a stored packet included, has had an
\* ACK sent or has its id waiting in ack_batch, and when _receive_file_fast
\* has left its receive loop no id is left waiting.
C14_EveryDataAcked ==
    /\ \A i \in UAAllIds :
          ua_acks[i] + Cardinality({j \in 1..Len(ack_batch) : ack_batch[j] = i})
              >= ua_recvd[i]
    /\ ua_pc = "done" => ack_batch = <<>>

InitFS == InitFSVars /\ IdleRW /\ IdleSW /\ IdleCD /\ IdleTCP /\ IdleUA /\ IdleRS /\ IdleUS /\ IdleUD /\ IdleRQ /\ IdleGI /\ IdleIX

SpecStore == InitFS /\ [][NextFS]_vars

\* C16: storing an upload never overwrites a stored file: no step changes
\* the content of a file that exists in the upload store.
C16_NoOverwrite ==
    [][\A n \in FsStored :
          fs_uploads[n].exists => fs_uploads'[n] = fs_uploads[n]]_vars

InitRS == InitRSVars /\ IdleRW /\ IdleSW /\ IdleCD /\ IdleTCP /\ IdleUA /\ IdleFS /\ IdleUS /\ IdleUD /\ IdleRQ /\ IdleGI /\ IdleIX

SpecSession == InitRS /\ [][NextRS]_vars

\* the payload length the header of a datagram declares
RSDeclared(packet) == packet[14] * 256 + packet[15]
\* the datagram is shorter than the header or does not start with MAGIC
RSBadFrame(packet) ==
    \/ Len(packet) < PACKET_HEADER_SIZE
    \/ <<packet[1], packet[2]>> # <<222, 173>>

\* C21: parse_packet returns None exactly for a datagram shorter than the
\* header or with another magic; any other datagram is returned with the
\* payload bytes that are there, up to the declared length, also when they
\* are fewer or more than declared; a datagram for which parse_packet
\* returned None changes nothing of the request session.
C21_DropOnlyBadFrames ==
    [][rs_n' # rs_n =>
          /\ rs_parsed'.none <=> RSBadFrame(rs_packet')
          /\ ~RSBadFrame(rs_packet') =>
                rs_parsed'.data =
                    [i \in 1..Min(RSDeclared(rs_packet'),
                                  Len(rs_packet') - PACKET_HEADER_SIZE) |->
                        rs_packet'[PACKET_HEADER_SIZE + i]]
          /\ RSBadFrame(rs_packet') =>
                UNCHANGED <<rs_running, rs_handled, rs_registered>>]_vars

\* witness of C21: of two datagrams taken from the queue one was dropped
\* and the last one, which has fewer payload bytes than it declares, was
\* parsed and handed to the handler
C21_Witness ==
    /\ rs_n = 2
    /\ rs_handled = 1
    /\ rs_running
    /\ ~rs_parsed.none
    /\ Len(rs_parsed.data) = 1
    /\ RSDeclared(rs_packet) = 2

InitUS == InitUSVars /\ IdleRW /\ IdleSW /\ IdleCD /\ IdleTCP /\ IdleUA /\ IdleFS /\ IdleRS /\ IdleUD /\ IdleRQ /\ IdleGI /\ IdleIX

SpecUpload == InitUS /\ [][NextUS]_vars

\* C26: the window of _send_file_fast never holds more than window_size
\* packets; a step admits packets only when fewer than window_size are in
\* the window, and every packet it admits is sent in the same step.
C26_WindowBound ==
    [][/\ Cardinality(DOMAIN us_window') <= us_window_size'
       /\ (DOMAIN us_window' \ DOMAIN us_window # {})
          => Cardinality(DOMAIN us_window) < us_window_size
       /\ \A seq \in DOMAIN us_window' \ DOMAIN us_window :
             us_xmit'[seq] = us_xmit[seq] + 1]_vars

\* witness of C26: the window is full again after an acknowledgment had
\* removed a packet from it and moved base_seq: a packet was admitted into
\* the room the acknowledgment made, and sent once
C26_Witness ==
    /\ Cardinality(DOMAIN us_window) = us_window_size
    /\ us_base_seq > UPLOAD_FIRST_SEQ
    /\ us_next_seq - 1 \in DOMAIN us_window
    /\ us_xmit[us_next_seq - 1] = 1

\* C27: an upload with a packet that is not acknowledged ends: when the
\* resend pass finds a packet timed out that was already sent again
\* UPLOAD_RESENDS times, the send loop is left.
C27_GivesUp ==
    [][(/\ us_pc = "recv"
        /\ us_pc' # "recv"
        /\ \E seq \in DOMAIN us_window :
              /\ US_timed_out(us_window[seq])
              /\ us_window[seq].resends >= UPLOAD_RESENDS)
       => us_pc' = "done"]_vars

InitUD == InitUDVars /\ IdleRW /\ IdleSW /\ IdleCD /\ IdleTCP /\ IdleUA /\ IdleFS /\ IdleRS /\ IdleUS /\ IdleRQ /\ IdleGI /\ IdleIX

SpecDownload == InitUD /\ [][NextUD]_vars

\* the packet ids of the chunks of the file
UDChunkIds == PACKET_ID_BASE..(PACKET_ID_BASE + ud_filesize - 1)

\* C31: a DATA packet of a UDP download that got lost is sent again: while
\* the client's receive loop still lacks a chunk, that chunk is on its way
\* to the client or the server's send loop has yet to send it.
C31_LostChunkResent ==
    \A id \in UDChunkIds :
        (ud_cl.pc = "recv" /\ ud_srv.at = "select" /\ ud_in = {}
         /\ id \notin ud_cl.packets)
        => \/ \E packet \in ud_out : packet.packet_id = id
           \/ ENABLED UDSendChunk

InitRQ == InitRQVars /\ IdleRW /\ IdleSW /\ IdleCD /\ IdleTCP /\ IdleUA /\ IdleFS /\ IdleRS /\ IdleUS /\ IdleUD /\ IdleGI /\ IdleIX

SpecRequests == InitRQ /\ [][NextRQ]_vars

\* the packets of a sequence of queue items that parse_packet accepts
RECURSIVE RQValid(_)
RQValid(items) ==
    IF items = <<>> THEN <<>>
    ELSE IF Head(items) # RQNone /\ ~CP_parse_packet(Head(items)).none
    THEN <<Head(items)>> \o RQValid(Tail(items))
    ELSE RQValid(Tail(items))
RQNoNone(items) == \A k \in 1..Len(items) : items[k] # RQNone

\* C32: every valid packet put on the queue of a request is passed to
\* handle_packet by the request's thread in the order it was put, also the
\* packets put after a packet with the END flag: what the thread has
\* handled is always the first valid packets put, and a thread that has left
\* its loop without taking None has handled all of them.
C32_AllHandledInOrder ==
    \A i \in RQSessions :
        /\ Len(rq_handled[i]) <= Len(RQValid(rq_put[i]))
        /\ rq_handled[i] = SubSeq(RQValid(rq_put[i]), 1, Len(rq_handled[i]))
        /\ (rq_pc[i] \in {"cleanup", "dead"} /\ RQNoNone(rq_put[i]))
           => rq_handled[i] = RQValid(rq_put[i])

InitGI == InitGIVars /\ IdleRW /\ IdleSW /\ IdleCD /\ IdleTCP /\ IdleUA /\ IdleFS /\ IdleRS /\ IdleUS /\ IdleUD /\ IdleRQ /\ IdleIX

SpecRequestId == InitGI /\ [][NextGI]_vars

\* C35: every id _get_request_id returns lies in 1..0xFFFF, differs from
\* the id returned by the call before, and is 1 when the call before
\* returned 0xFFFF.
C35_RequestIdRange ==
    [][next_request_id' # next_request_id
       => /\ gi_rid' \in 1..REQUEST_ID_MAX
          /\ gi_rid' # gi_rid
          /\ gi_rid = REQUEST_ID_MAX => gi_rid' = 1]_vars
C35_Witness ==
    gi_wraps = 1 /\ gi_rid = 1 /\ next_request_id = 2

InitIX == InitIXVars /\ IdleRW /\ IdleSW /\ IdleCD /\ IdleTCP /\ IdleUA /\ IdleFS /\ IdleRS /\ IdleUS /\ IdleUD /\ IdleRQ /\ IdleGI

SpecExchange == InitIX /\ [][NextIX]_vars

\* C36: a datagram with another request id than the exchange in progress
\* changes nothing of that exchange: when _wait_for_response,
\* _send_file_fast or _receive_file_fast takes such a datagram, the packets
\* stored, the bytes received, the window with its base, the ACKs queued
\* and sent and the return of the wait all stay as they were.
C36_ExchangeIsolated ==
    [][(ix_n' = ix_n + 1 /\ ix_last'.rid # ix_request_id)
       => UNCHANGED <<ix_packets, ix_received, ix_ack_batch, ix_acks,
                      ix_window, ix_base_seq, ix_returned>>]_vars
\* foreign datagrams were taken and an own one was acted on
C36_Witness ==
    /\ ix_n >= 2
    /\ ix_last.rid # ix_request_id
    /\ ix_last.rid # 0
    /\ \/ ix_fn = "send" /\ Cardinality(ix_window) = 1
       \/ ix_fn = "recv" /\ ix_packets # {}
       \/ ix_fn = "wait" /\ ix_acks # {}

NextTCP ==
    \/ \E s \in Sessions : L2Accept(s)
    \/ \E s \in Sessions : L2Hello(s)
    \/ \E s \in Sessions : L2Command(s)
    \/ \E s \in Sessions : L2UploadChunk(s)
    \/ \E s \in Sessions : L2UploadError(s)
    \/ \E s \in Sessions : L2Offset(s)
    \/ \E s \in Sessions : L2Disconnected(s)
    \/ \E s \in Sessions : SrvAccept(s)
    \/ \E s \in Sessions, k \in 1..BUFFER_SIZE : SrvTcpEvent(s, k)
    \/ \E s \in Sessions : SrvTcpEof(s)
    \/ \E s \in Sessions : SrvRecvUntilByte(s)
    \/ \E s \in Sessions : SrvRecvUntilEof(s)
    \/ \E s \in Sessions, id \in ClientIds : ClConnect(s, id)
    \/ \E s \in Sessions : ClConnectResponse(s)
    \/ \E s \in Sessions : ClSimpleCommand(s)
    \/ \E s \in Sessions : ClPrintResponse(s)
    \/ \E s \in Sessions, name \in FileNames : ClUpload(s, name)
    \/ \E s \in Sessions : ClUploadData(s)
    \/ \E s \in Sessions, name \in FileNames : ClDownload(s, name)
    \/ \E s \in Sessions : ClDownloadResponse(s)
    \/ \E s \in Sessions : ClDownloadChunk(s)
    \/ \E s \in Sessions : ClConnectionError(s)
    \/ \E s \in Sessions : ClInterrupt(s)
    \/ \E s \in Sessions : ClDisconnect(s)
    \/ \E s \in Sessions : PeerConnect(s)
    \/ \E s \in Sessions, line \in PeerLines : PeerSend(s, <<line, NL>>)
    \/ \E s \in Sessions : PeerSend(s, <<PeerByte>>)
    \/ \E s \in Sessions : PeerClose(s)

InitTCP == InitTCPVars /\ IdleRW /\ IdleSW /\ IdleCD /\ IdleUA /\ IdleFS /\ IdleRS /\ IdleUS /\ IdleUD /\ IdleRQ /\ IdleGI /\ IdleIX

SpecTCP == InitTCP /\ [][NextTCP]_vars

(***************************************************************************)
(* TCP download resume and client identifiers                              *)
(***************************************************************************)
\* no other client has done anything yet
Alone(s) == \A t \in Sessions \ {s} : cl_pc[t] = "init"
\* the bytes of the stored file
Source(name) == uploads[name].data
\* download_file has returned
DownloadReturned(s) ==
    cl_dl[s].phase \in {"complete", "refused", "done", "failed"}
\* a step that moves the download of connection s on without the client
\* sending anything more
DownloadStep(s) ==
    \/ ClDownloadChunk(s)
    \/ \E k \in 1..BUFFER_SIZE : SrvTcpEvent(s, k)
    \/ SrvRecvUntilByte(s)
    \/ L2Offset(s)

\* C7: when download_file finds the local file as long as the stored one and
\* returns (existing == total), no transfer is started: the server has no
\* download state for the connection, has sent no file bytes for the request,
\* and has read no line of the client as the resume offset, so that the
\* client's next command line is processed as a command.
C7_NoTransferWhenComplete ==
    \A s \in Sessions :
        cl_dl[s].phase = "complete" =>
            /\ ~download_state[s].active
            /\ srv_file_sent[s] = <<>>
            /\ srv_offset_str[s] = <<>>

\* C8: a download_file call that starts with a partial local file of p bytes,
\* 0 < p < total, goes on until it has returned, and when it has returned the
\* local file equals the stored file: while the client waits in its receive
\* loop after reporting p some step of the transfer is possible, and the
\* returned call leaves the source bytes in the file.
C8_ResumeCompletes ==
    \A s \in Sessions :
        /\ (/\ Alone(s)
            /\ DownloadReturned(s)
            /\ 0 < cl_dl[s].existing
            /\ cl_dl[s].existing < Len(Source("f")))
           => cl_file = File(Source("f"))
        /\ (cl_pc[s] = "download_loop" /\ cl_dl[s].offset > 0)
           => ENABLED DownloadStep(s)

\* C9: when download_file finds the local file longer than the stored one
\* (existing > total) and goes on to receive, it has reported offset 0 to the
\* server.
C9_RestartFromZero ==
    \A s \in Sessions :
        (/\ cl_dl[s].phase \in {"receiving", "done"}
         /\ cl_dl[s].existing > cl_dl[s].filesize)
        => cl_sent_offset[s] = <<0>>

\* a handle_client thread that has taken its CLIENT line and serves commands
L2Registered(s) == th[s].at \in {"loop", "upload", "offset"}

\* C10: client identifiers are unique among the sessions the server serves,
\* and CLIENT alice is accepted when no other session holds the identifier:
\* no two served sessions are registered under one identifier, and the first
\* connect of all, once answered, has made its client connected.
C10_UniqueClientId ==
    /\ \A s, t \in Sessions :
          (s # t /\ L2Registered(s) /\ L2Registered(t))
          => th[s].client_id # th[t].client_id
    /\ \A s \in Sessions :
          (cl_cmds = 1 /\ cl_pc[s] = "ready") => cl_connected[s]

(***************************************************************************)
(* The multiplexing server: transfers end to end, the dispatcher           *)
(***************************************************************************)
\* the server has read everything connection s was sent and is not inside
\* a handler
ServerCaughtUp(s) == c2s[s] = <<>> /\ srv_pc.at = "select"

\* C11: an upload followed by a download from a fresh connection returns the
\* bytes: once the server has read the UPLOAD line and all the bytes of the
\* file, or has closed the connection, it has reported the result to the
\* uploader; a requester that reported
\* offset 0 and waits for the file can be sent more of it; and when its
\* download has ended its file is the stored file.
C11_UploadThenDownload ==
    \A s \in Sessions :
        /\ (/\ Alone(s)
            /\ cl_pc[s] = "upload_recv"
            /\ Len(cl_file.data) > 0
            /\ ServerCaughtUp(s) \/ s \in sock_closed
            /\ th[s].at \in {"none", "loop", "done"})
           => HasNL(s2c[s])
        /\ (/\ cl_pc[s] = "download_loop"
            /\ cl_sent_offset[s] = <<0>>)
           => ENABLED DownloadStep(s)
        /\ (/\ Alone(s)
            /\ cl_dl[s].phase = "done"
            /\ cl_sent_offset[s] = <<0>>)
           => cl_file = File(Source("f"))

C20_CloseAcknowledged ==
    [][\A s \in Sessions :
          (/\ server = "lab03"
           /\ s \in tcp_clients
           /\ sock_buffer[s] = <<>>
           /\ ~upload_state[s].active
           /\ ~download_state[s].active
           /\ Take(c2s[s], 2) = <<Txt("CLOSE", "", 0), NL>>
           /\ s \in sock_closed')
          => /\ s2c'[s] = s2c[s] \o <<ReplyClosing, NL>>
             /\ srv_cmds'[s] = Append(srv_cmds[s], Txt("CLOSE", "", 0))
             /\ s \notin tcp_clients']_vars

\* C22: a session-level error of the select() server leaves the session
\* usable: a step in which the server reads the whole of an unknown command
\* line from a connection with an empty buffer and no transfer sends one
\* reply line and keeps the connection in the client table, not closed.
C22_ErrorKeepsSession ==
    [][\A s \in Sessions :
          (/\ server = "lab03"
           /\ srv_pc.at = "select"
           /\ s \in tcp_clients
           /\ sock_buffer[s] = <<>>
           /\ ~upload_state[s].active
           /\ ~download_state[s].active
           /\ c2s[s] = <<Txt("NUM", "", MaxFile + 1), NL>>
           /\ c2s'[s] = <<>>)
          => /\ s2c'[s] = s2c[s] \o <<ReplyUnknown, NL>>
             /\ s \in tcp_clients'
             /\ s \notin sock_closed']_vars

\* C23: base is a low-water mark of the window: no entry still in packets
\* (not acknowledged) has a sequence number below base.
C23_BaseLowWater == \A s \in SW_keys(packets) : s >= base

\* C24: in every state of the window, ack_received for a number that is not
\* in the window returns False, invokes no callback and leaves packets and
\* base as they are, and ack_received for a number in the window returns
\* True and removes this one entry, the others staying as they are.
C24_AckFrame ==
    \A seq_num \in SWSeqNums :
        LET r == SW_ack_received(packets, base, seq_num)
        IN IF seq_num \notin SW_keys(packets)
           THEN /\ ~r.ret
                /\ r.called = <<>>
                /\ r.packets = packets
                /\ r.base = base
           ELSE /\ r.ret
                /\ Len(r.packets) = Len(packets) - 1
                /\ SW_keys(r.packets) = SW_keys(packets) \ {seq_num}
                /\ \A t \in SW_keys(r.packets) :
                      SW_get(r.packets, t) = SW_get(packets, t)

\* witness of C24: a number given with a callback was acknowledged once and
\* is no more in the window, which is above it and still holds another
\* entry: an acknowledgment of this number now is a duplicate
C24_Witness ==
    \E s \in SWSeqNums :
        /\ sw_callbacks[s] = <<TRUE>>
        /\ s \notin SW_keys(packets)
        /\ packets # <<>>
        /\ base > s

\* C25: after every step every buffered sequence number s satisfies
\* expected_seq < s < expected_seq + window_size, so that at most
\* window_size - 1 payloads are buffered, and a call of add_packet with a
\* number at or beyond expected_seq + window_size returns (False, None) and
\* changes none of expected_seq, buffer, received_packets.
C25_BufferBound ==
    [][/\ \A s \in DOMAIN buffer' :
             expected_seq' < s /\ s < expected_seq' + rw_window_size'
       /\ Cardinality(DOMAIN buffer') <= rw_window_size' - 1
       /\ (/\ rw_passed' # rw_passed
           /\ rw_call'.seq_num >= expected_seq + rw_window_size)
          => /\ rw_ret' = RetNone
             /\ expected_seq' = expected_seq
             /\ buffer' = buffer
             /\ received_packets' = received_packets]_vars

\* witness of C25: the buffer holds window_size - 1 payloads, two at least,
\* and the last call passed a number at or beyond expected_seq + window_size
C25_Witness ==
    /\ Cardinality(DOMAIN buffer) = rw_window_size - 1
    /\ Cardinality(DOMAIN buffer) >= 2
    /\ rw_call.seq_num >= expected_seq + rw_window_size
    /\ rw_call.seq_num \in rw_dropped

\* the commands of the complete lines of a stream, in order
RECURSIVE LinesOf(_)
LinesOf(stream) ==
    IF ~HasNL(stream) THEN <<>>
    ELSE <<CmdOf(Take(stream, FirstNL(stream) - 1))>>
         \o LinesOf(Drop(stream, FirstNL(stream)))
\* what follows the last newline of a stream
RECURSIVE PartialOf(_)
PartialOf(stream) ==
    IF ~HasNL(stream) THEN stream
    ELSE PartialOf(Drop(stream, FirstNL(stream)))
\* the stream holds nothing but TIME lines and lines of an unknown command
OnlyCommands(stream) ==
    \A i \in 1..Len(stream) :
        stream[i] \in {Txt("TIME", "", 0), Txt("NUM", "", MaxFile + 1), NL}

\* C28: the select() server processes the complete lines of a stream of
\* commands in arrival order however the stream is split into reads: a step
\* in which its event loop reads from a connection without a transfer whose stream holds
\* only command lines leaves unchanged the commands processed so far followed
\* by the complete lines still in the session buffer and in the socket, and
\* leaves unchanged the partial line at the end.
C28_LinesInOrder ==
    [][\A s \in Sessions :
          (/\ server = "lab03"
           /\ srv_pc.at = "select"
           /\ s \in tcp_clients
           /\ ~upload_state[s].active
           /\ ~download_state[s].active
           /\ OnlyCommands(sock_buffer[s] \o c2s[s])
           /\ Len(c2s'[s]) < Len(c2s[s]))
          => /\ srv_cmds'[s] \o LinesOf(sock_buffer'[s] \o c2s'[s])
                = srv_cmds[s] \o LinesOf(sock_buffer[s] \o c2s[s])
             /\ LinesOf(sock_buffer'[s]) = <<>>
             /\ PartialOf(sock_buffer'[s] \o c2s'[s])
                = PartialOf(sock_buffer[s] \o c2s[s])]_vars

\* C29: the bytes that follow an UPLOAD line are the stored file and are not
\* read as commands, also when they arrive in the same read as the line: a
\* step in which the select() server's event loop reads `UPLOAD f 1`, its
\* newline and the file byte at once from a connection with an empty session
\* buffer and no transfer stores that byte as file f, ends the upload and
\* leaves the byte out of the session's command buffer.
C29_UploadBytesInOrder ==
    [][\A s \in Sessions :
          (/\ server = "lab03"
           /\ srv_pc.at = "select"
           /\ s \in tcp_clients
           /\ ~upload_state[s].active
           /\ ~download_state[s].active
           /\ sock_buffer[s] = <<>>
           /\ Len(c2s[s]) >= 3
           /\ Take(c2s[s], 3) = <<Txt("UPLOAD", "f", 1), NL, PeerByte>>
           /\ Len(c2s'[s]) <= Len(c2s[s]) - 3)
          => /\ uploads'["f"] = File(<<PeerByte>>)
             /\ ~upload_state'[s].active
             /\ \A i \in 1..Len(sock_buffer'[s]) :
                    sock_buffer'[s][i] # PeerByte]_vars

\* C30: the server completes a UDP upload only when the chunks it received
\* add up to the declared size: a step that ends the file session writes a
\* file of the size the UPLOAD command declared, and that file is the
\* session's chunks in the order of their packet ids.
C30_CompleteAtDeclaredSize ==
    [][(fs_session.active /\ ~fs_session'.active)
       => LET filepath == FS_udp_filepath(fs_uploads, fs_session.filename)
          IN /\ fs_uploads'[filepath].exists
             /\ Len(fs_uploads'[filepath].data) = fs_session.filesize
             /\ \E i \in FsPacketIds, b \in FsPayloads :
                   fs_uploads'[filepath].data =
                       FS_assemble([fs_session.packets EXCEPT ![i] = <<b>>], 0)
      ]_vars

\* C34: every packet built with the ACK flag has an empty payload and
\* carries the packet id of the packet it acknowledges, the server's reply
\* to START included.
C34_AckEmptyAndNamed ==
    \A b \in ud_built :
        UD_has(b.packet.flags, FLAG_ACK)
        => /\ b.packet.payload = <<>>
           /\ b.packet.packet_id = b.of

C37_ExitWithEmptyWindow ==
    us_pc = "done" => DOMAIN us_window = {}

====
